---- MODULE Spec2Model ----
(***************************************************************************)
(* Verification model of codeagent-wrapper (yj147/myclaude).               *)
(*                                                                         *)
(* Part 1: the parallel task scheduler (internal/executor).  The scheduler *)
(* is modelled from the specification's sections 4.1, 4.2 and 5, with the  *)
(* constants and documented behaviour of app.go, USER_GUIDE.md and README. *)
(***************************************************************************)
EXTENDS Integers, Sequences, FiniteSets, TLC

(***************************************************************************)
(* Bounds of the model.                                                    *)
(***************************************************************************)
\* largest number of dependencies one task header may list
MaxDeps == 2
\* largest configured worker count tried in the per-task scheduler model
MaxWorkerChoice == 2
\* extra tasks / workers beyond the cap tried in the worker-pool model
PoolSlack == 2
\* largest backend exit status tried in the classification model
MaxBackendExit == 131
\* longest explicit part of a prompt in the stdin-selection model
MaxBodyLen == 2
\* number of tasks run in the working-directory model
MaxWtTasks == 3
\* number of tokens an input of the front-matter stripper is made of
MaxTokens == 7
\* longest list of skill names and largest budget tried in the skill model
MaxSkills == 3
MaxBudget == 75
\* most components a prompt-file path is written with
MaxPathLen == 3

(***************************************************************************)
(* Program constants.                                                      *)
(***************************************************************************)
\* CODEAGENT_MAX_PARALLEL_WORKERS: 0 = unlimited, max 100
maxParallelWorkersLimit == 100
\* seconds between SIGTERM and SIGKILL
forceKillDelay == 5
\* exit codes (printHelp, "Exit Codes")
exitSuccess == 0
exitGeneral == 1
exitTimeout == 124
exitInterrupted == 130
\* exit status recorded for a task that never had a process
noExit == -1

(***************************************************************************)
(* The batch: submission-ordered task ids and dependency lists.            *)
(***************************************************************************)
TaskIds == <<"A", "B", "C">>
UnknownId == "X"
BatchLen == Len(TaskIds)
Idx == 1..BatchLen
KnownIds == {TaskIds[k] : k \in Idx}
IdUniverse == KnownIds \cup {UnknownId}

\* id sequences up to renaming: a name is used only after all earlier names
CanonicalIds(s) ==
    \A i \in Idx : \E k \in 1..i :
        /\ s[i] = TaskIds[k]
        /\ \A m \in 1..(k-1) : \E j \in 1..(i-1) : s[j] = TaskIds[m]

DepChoices == {S \in SUBSET IdUniverse : Cardinality(S) <= MaxDeps}

SetMin(S) == CHOOSE x \in S : \A y \in S : x <= y

TerminalStates == {"succeeded", "failed", "timed-out", "cancelled", "skipped"}
IsTerminal(s) == s \in TerminalStates

VARIABLES
    phase,          \* "submitted" | "rejected" | "running" | "reported"
    ids,            \* submission index -> task id
    deps,           \* submission index -> set of dependency ids
    maxWorkers,     \* configured worker count N (0 = unbounded)
    failFast,       \* fail-fast flag
    state,          \* submission index -> scheduler state of the task
    indegree,       \* submission index -> dependencies not yet terminal
    exitCode,       \* submission index -> exit status of the TaskResult
    reason,         \* submission index -> skip reason / error descriptor
    sigterm,        \* submission index -> cause of the SIGTERM sent ("none" if not sent)
    sigkill,        \* submission index -> SIGKILL was sent
    graceLeft,      \* submission index -> seconds left before SIGKILL
    started,        \* set of tasks whose backend process was launched
    completion,     \* submission indices in order of reaching a terminal state
    cancelRequested,\* the external cancellation signal was received
    failFastTripped,\* a terminal failure was seen with fail-fast enabled
    errorKind,      \* error of a rejected batch
    report,         \* the BatchReport's TaskResults
    batchExit,      \* overall exit status
    poolN,          \* worker-pool model: configured worker count
    poolReady,      \* worker-pool model: ready tasks awaiting admission
    poolRunning,    \* worker-pool model: tasks holding a worker slot
    poolDone        \* worker-pool model: finished tasks

schedVars == <<phase, ids, deps, maxWorkers, failFast, state, indegree, exitCode,
               reason, sigterm, sigkill, graceLeft, started, completion,
               cancelRequested, failFastTripped, errorKind, report, batchExit>>
poolVars == <<poolN, poolReady, poolRunning, poolDone>>

\* one call frame per function that is modelled on its own
VARIABLES
    cls,            \* result classification: backend exit, message, TaskResult
    sel,            \* stdin selection: prompt, request, stdin and argv of the child
    wt,             \* working-directory resolution: environment, flag, worktrees
    rsc,            \* ResolveSkillContent: arguments, skill files, locals, result
    fm,             \* stripYAMLFrontmatter: argument and results
    rapf            \* ReadAgentPromptFile: arguments, file system, result

VARIABLES
    un,    \* uninstall.sh: options, install directory, shell files, outcome
    npx,   \* npx installer: options, install directory, work list, effects
    dps,   \* DetectProjectSkills: working directory, loop position, result
    ppc,   \* ParseParallelConfig: header value and parsed task
    ins    \* install.sh: shell files and the lines added to them
toolVars == <<un, npx, dps, ppc, ins>>
callVars == <<cls, sel, wt, rsc, fm, rapf, toolVars>>
vars == <<schedVars, poolVars, callVars>>

\* a frame that is not in use
Idle == [pc |-> "idle"]
ToolsIdle ==
    /\ un = Idle /\ npx = Idle /\ dps = Idle /\ ppc = Idle /\ ins = Idle
CallsIdle ==
    /\ cls = Idle /\ sel = Idle /\ wt = Idle /\ rsc = Idle /\ fm = Idle /\ rapf = Idle
    /\ ToolsIdle

(***************************************************************************)
(* Batch validation (dependency resolution).                               *)
(***************************************************************************)
HasDuplicateIds(idseq) == \E i \in Idx, j \in Idx : i # j /\ idseq[i] = idseq[j]

HasUnknownDep(idseq, dp) ==
    \E i \in Idx : \E d \in dp[i] : \A j \in Idx : idseq[j] # d

\* Kahn's peeling: repeatedly remove the tasks none of whose dependencies remain
RECURSIVE Peel(_, _, _)
Peel(idseq, dp, R) ==
    LET free == {i \in R : \A d \in dp[i] : \A j \in R : idseq[j] # d}
    IN  IF free = {} THEN R ELSE Peel(idseq, dp, R \ free)

\* variant: only a task that lists itself is seen as a cycle
HasCycle_SelfOnly(idseq, dp) == \E i \in Idx : idseq[i] \in dp[i]

HasCycle(idseq, dp) == Peel(idseq, dp, Idx) # {}

ValidBatch(idseq, dp) ==
    /\ ~HasDuplicateIds(idseq)
    /\ ~HasUnknownDep(idseq, dp)
    /\ ~HasCycle(idseq, dp)

\* tasks (by submission index) that task v lists as dependencies
DepIdx(v) == {u \in Idx : ids[u] \in deps[v]}
\* tasks that list u as a dependency
Dependents(u) == {v \in Idx : ids[u] \in deps[v]}

RECURSIVE Ancestors(_, _)
Ancestors(v, fuel) ==
    IF fuel = 0 THEN {}
    ELSE DepIdx(v) \cup UNION {Ancestors(u, fuel - 1) : u \in DepIdx(v)}
\* transitive dependencies of v
TransDeps(v) == Ancestors(v, BatchLen)

(***************************************************************************)
(* Worker pool.                                                            *)
(***************************************************************************)
\* variant: the configured count is used as it is, without the cap
WorkerLimit_NoCap(n) == IF n <= 0 THEN 2 * maxParallelWorkersLimit ELSE n

WorkerLimit(n) ==
    IF n <= 0 THEN maxParallelWorkersLimit
    ELSE IF n > maxParallelWorkersLimit THEN maxParallelWorkersLimit
    ELSE n

CanAdmit(runningCount, n) == runningCount < WorkerLimit(n)

Running == {i \in Idx : state[i] = "running"}

(***************************************************************************)
(* Dependency tracker: in-degree counters and readiness.                   *)
(***************************************************************************)
\* variant: only dependencies that themselves ran and failed block a task
Decide_DirectFailuresOnly(v, st, stop) ==
    IF \E u \in DepIdx(v) : st[u] \in {"failed", "cancelled", "timed-out"} THEN "skipped"
    ELSE IF stop THEN "cancelled"
    ELSE "ready"

\* decision for a task all of whose dependencies have reached a terminal state
Decide(v, st, stop) ==
    IF \E u \in DepIdx(v) : st[u] # "succeeded" THEN "skipped"
    ELSE IF stop THEN "cancelled"
    ELSE "ready"

\* variant: ready one dependency early (off-by-one on the in-degree)
ReadyWhen_OffByOne(count) == count <= 1

\* a task becomes ready (or is skipped / cancelled) when its in-degree is zero
ReadyWhen(count) == count = 0

\* process the terminal tasks in queue: decrement the in-degrees of their
\* dependents and settle those whose in-degree reaches zero
RECURSIVE Settle(_, _, _, _)
Settle(st, ind, queue, stop) ==
    IF queue = {} THEN [st |-> st, ind |-> ind]
    ELSE LET u    == SetMin(queue)
             dn   == Dependents(u)
             ind2 == [v \in Idx |-> IF v \in dn THEN ind[v] - 1 ELSE ind[v]]
             zero == {v \in dn : ReadyWhen(ind2[v]) /\ st[v] = "pending"}
             st2  == [v \in Idx |-> IF v \in zero THEN Decide(v, st, stop) ELSE st[v]]
             fresh == {v \in zero : IsTerminal(st2[v])}
         IN  Settle(st2, ind2, (queue \ {u}) \cup fresh, stop)

\* variant: stopping the batch marks every task that is not running or
\* succeeded as cancelled
StopReady_All(st, stop) ==
    [v \in Idx |-> IF stop /\ st[v] \notin {"running", "succeeded"} THEN "cancelled" ELSE st[v]]

\* variant: ready tasks are left in the queue when the batch is stopped
StopReady_Noop(st, stop) == st

\* ready tasks are marked cancelled once the batch is being stopped
StopReady(st, stop) ==
    [v \in Idx |-> IF stop /\ st[v] = "ready" THEN "cancelled" ELSE st[v]]

RECURSIVE AscSeq(_)
AscSeq(S) == IF S = {} THEN <<>> ELSE <<SetMin(S)>> \o AscSeq(S \ {SetMin(S)})

(***************************************************************************)
(* Result classification (task pipeline step 11) and batch exit status.    *)
(***************************************************************************)
ClassifyState(code, hasMsg) ==
    IF code = exitSuccess THEN (IF hasMsg THEN "succeeded" ELSE "failed")
    ELSE IF code = exitTimeout THEN "timed-out"
    ELSE IF code = exitInterrupted THEN "cancelled"
    ELSE "failed"

\* variant: the backend's exit status is always passed through
ClassifyExit_Passthrough(code, hasMsg) == code

ClassifyExit(code, hasMsg) ==
    IF code = exitSuccess /\ ~hasMsg THEN exitGeneral ELSE code

\* a terminal failure trips fail-fast, when fail-fast is enabled
IsFailure(st) == st \in {"failed", "timed-out", "cancelled"}

\* variant: a failure stops the batch whatever the flag says
Trips_Always(ff, st) == IsFailure(st)

Trips(ff, st) == ff /\ IsFailure(st)

\* state and exit status of a finished task: a child that was sent SIGTERM
\* by the timeout is timed-out, one signalled by the cancellation is cancelled
ResultState(cause, code, hasMsg) ==
    IF cause = "timeout" THEN "timed-out"
    ELSE IF cause = "cancel" THEN "cancelled"
    ELSE ClassifyState(code, hasMsg)

\* variant: the exit status is the child's own, whatever ended it
ResultExit_IgnoreCause(cause, code, hasMsg) == ClassifyExit(code, hasMsg)

ResultExit(cause, code, hasMsg) ==
    IF cause = "timeout" THEN exitTimeout
    ELSE IF cause = "cancel" THEN exitInterrupted
    ELSE ClassifyExit(code, hasMsg)

BatchExitCodes(st, cancelled) ==
    (IF \E i \in Idx : st[i] \in {"failed", "cancelled", "skipped"} THEN {exitGeneral} ELSE {})
    \cup (IF \E i \in Idx : st[i] = "timed-out" THEN {exitTimeout} ELSE {})
    \cup (IF cancelled THEN {exitInterrupted} ELSE {})

\* variant: an external cancellation decides the exit status by itself
BatchExit_CancelFirst(st, cancelled) ==
    IF cancelled THEN exitInterrupted
    ELSE IF BatchExitCodes(st, cancelled) = {} THEN exitSuccess
    ELSE SetMin(BatchExitCodes(st, cancelled))

\* variant: the largest of the codes present is returned
BatchExit_Largest(st, cancelled) ==
    IF BatchExitCodes(st, cancelled) = {} THEN exitSuccess
    ELSE CHOOSE x \in BatchExitCodes(st, cancelled) :
            \A y \in BatchExitCodes(st, cancelled) : y <= x

BatchExit(st, cancelled) ==
    IF BatchExitCodes(st, cancelled) = {} THEN exitSuccess
    ELSE SetMin(BatchExitCodes(st, cancelled))

\* variant: results are appended as the tasks complete
ReportOrder_Completion(done) == done

\* order of the TaskResults in the report: submission order
ReportOrder(done) == [k \in Idx |-> k]

TaskResultOf(i) ==
    [id |-> ids[i], state |-> state[i], exit |-> exitCode[i], reason |-> reason[i]]

(***************************************************************************)
(* Scheduler: initial state and operations.                                *)
(***************************************************************************)
NoTasks == [i \in Idx |-> "none"]

Init ==
    /\ phase = "submitted"
    /\ ids \in {s \in [Idx -> KnownIds] : CanonicalIds(s)}
    /\ deps \in [Idx -> DepChoices]
    /\ maxWorkers \in 0..MaxWorkerChoice
    /\ failFast \in BOOLEAN
    /\ state = [i \in Idx |-> "pending"]
    /\ indegree = [i \in Idx |-> 0]
    /\ exitCode = [i \in Idx |-> noExit]
    /\ reason = [i \in Idx |-> ""]
    /\ sigterm = NoTasks
    /\ sigkill = [i \in Idx |-> FALSE]
    /\ graceLeft = [i \in Idx |-> 0]
    /\ started = {}
    /\ completion = <<>>
    /\ cancelRequested = FALSE
    /\ failFastTripped = FALSE
    /\ errorKind = ""
    /\ report = <<>>
    /\ batchExit = noExit
    /\ poolN = 0 /\ poolReady = 0 /\ poolRunning = 0 /\ poolDone = 0
    /\ CallsIdle

\* the batch is rejected before any task starts
Reject ==
    /\ phase = "submitted"
    /\ ~ValidBatch(ids, deps)
    /\ phase' = "rejected"
    /\ errorKind' = "InvalidConfig"
    /\ batchExit' = exitGeneral
    /\ UNCHANGED <<ids, deps, maxWorkers, failFast, state, indegree, exitCode, reason,
                   sigterm, sigkill, graceLeft, started, completion, cancelRequested,
                   failFastTripped, report, poolVars, callVars>>

\* the batch is accepted: in-degrees are counted, in-degree-zero tasks are ready
Accept ==
    /\ phase = "submitted"
    /\ ValidBatch(ids, deps)
    /\ phase' = "running"
    /\ indegree' = [i \in Idx |-> Cardinality(DepIdx(i))]
    /\ state' = [i \in Idx |-> IF ReadyWhen(Cardinality(DepIdx(i))) THEN "ready" ELSE "pending"]
    /\ UNCHANGED <<ids, deps, maxWorkers, failFast, exitCode, reason, sigterm, sigkill,
                   graceLeft, started, completion, cancelRequested, failFastTripped,
                   errorKind, report, batchExit, poolVars, callVars>>

\* a worker is admitted and launches the backend process of a ready task
Start(i) ==
    /\ phase = "running"
    /\ state[i] = "ready"
    /\ ~cancelRequested /\ ~failFastTripped
    /\ CanAdmit(Cardinality(Running), maxWorkers)
    /\ state' = [state EXCEPT ![i] = "running"]
    /\ started' = started \cup {i}
    /\ UNCHANGED <<phase, ids, deps, maxWorkers, failFast, indegree, exitCode, reason,
                   sigterm, sigkill, graceLeft, completion, cancelRequested,
                   failFastTripped, errorKind, report, batchExit, poolVars, callVars>>

\* record the terminal state st / exit ex of running task i, trip fail-fast if
\* it is a failure, and settle the tasks that were waiting
Record(i, st, ex) ==
    LET trip  == failFastTripped \/ Trips(failFast, st)
        stop  == cancelRequested \/ trip
        st1   == StopReady([state EXCEPT ![i] = st], stop)
        newly == {v \in Idx : st1[v] = "cancelled" /\ state[v] = "ready"}
        res   == Settle(st1, indegree, {i} \cup newly, stop)
        fresh == {v \in Idx \ {i} : IsTerminal(res.st[v]) /\ ~IsTerminal(state[v])}
    IN  /\ state' = res.st
        /\ indegree' = res.ind
        /\ failFastTripped' = trip
        /\ exitCode' = [v \in Idx |->
                          IF v = i THEN ex
                          ELSE IF v \in fresh /\ res.st[v] = "cancelled" THEN exitInterrupted
                          ELSE exitCode[v]]
        /\ reason' = [v \in Idx |->
                          IF v \in fresh /\ res.st[v] = "skipped" THEN "dependency-failed"
                          ELSE reason[v]]
        /\ completion' = completion \o <<i>> \o AscSeq(fresh)
        /\ graceLeft' = [graceLeft EXCEPT ![i] = 0]

BackendExitCodes == {exitSuccess, 2, exitTimeout, exitInterrupted}

\* the child of running task i exits by itself with the given code and message
TaskExit(i, code, hasMsg) ==
    /\ phase = "running"
    /\ state[i] = "running"
    /\ sigterm[i] # "none" => (code = exitSuccess /\ hasMsg)
    /\ Record(i, ResultState(sigterm[i], code, hasMsg), ResultExit(sigterm[i], code, hasMsg))
    /\ UNCHANGED <<phase, ids, deps, maxWorkers, failFast, sigterm, sigkill, started,
                   cancelRequested, errorKind, report, batchExit, poolVars, callVars>>

\* the wall-clock timer of running task i expires: SIGTERM, grace period starts
TimeoutFire(i) ==
    /\ phase = "running"
    /\ state[i] = "running"
    /\ sigterm[i] = "none"
    /\ sigterm' = [sigterm EXCEPT ![i] = "timeout"]
    /\ graceLeft' = [graceLeft EXCEPT ![i] = forceKillDelay]
    /\ UNCHANGED <<phase, ids, deps, maxWorkers, failFast, state, indegree, exitCode,
                   reason, sigkill, started, completion, cancelRequested,
                   failFastTripped, errorKind, report, batchExit, poolVars, callVars>>

\* one second passes for the children that were sent SIGTERM
Tick ==
    /\ phase = "running"
    /\ \E i \in Running : sigterm[i] # "none"
    /\ \A i \in Running : sigterm[i] # "none" => graceLeft[i] > 0
    /\ graceLeft' = [i \in Idx |->
                        IF i \in Running /\ sigterm[i] # "none"
                        THEN graceLeft[i] - 1 ELSE graceLeft[i]]
    /\ UNCHANGED <<phase, ids, deps, maxWorkers, failFast, state, indegree, exitCode,
                   reason, sigterm, sigkill, started, completion, cancelRequested,
                   failFastTripped, errorKind, report, batchExit, poolVars, callVars>>

\* variant: SIGKILL follows SIGTERM without waiting
KillDue_AtOnce(left) == TRUE

\* SIGKILL may be sent once the grace period has run out
KillDue(left) == left = 0

\* the grace period of running task i is over and the child is still alive:
\* SIGKILL, the child dies, the result is recorded
ForceKill(i) ==
    /\ phase = "running"
    /\ state[i] = "running"
    /\ sigterm[i] # "none"
    /\ KillDue(graceLeft[i])
    /\ sigkill' = [sigkill EXCEPT ![i] = TRUE]
    /\ Record(i, ResultState(sigterm[i], exitInterrupted, FALSE),
                  ResultExit(sigterm[i], exitInterrupted, FALSE))
    /\ UNCHANGED <<phase, ids, deps, maxWorkers, failFast, sigterm, started,
                   cancelRequested, errorKind, report, batchExit, poolVars, callVars>>

\* tasks whose child is signalled by the external cancellation
CancelTargets == {i \in Running : sigterm[i] = "none"}

\* the external cancellation signal: in-flight children get SIGTERM, ready
\* tasks are marked cancelled, waiting tasks are settled
Cancel ==
    /\ phase = "running"
    /\ ~cancelRequested
    /\ \E i \in Idx : ~IsTerminal(state[i])
    /\ cancelRequested' = TRUE
    /\ LET st1   == StopReady(state, TRUE)
           newly == {v \in Idx : st1[v] = "cancelled" /\ state[v] = "ready"}
           res   == Settle(st1, indegree, newly, TRUE)
           fresh == {v \in Idx : IsTerminal(res.st[v]) /\ ~IsTerminal(state[v])}
       IN  /\ state' = res.st
           /\ indegree' = res.ind
           /\ exitCode' = [v \in Idx |->
                             IF v \in fresh /\ res.st[v] = "cancelled" THEN exitInterrupted
                             ELSE exitCode[v]]
           /\ reason' = [v \in Idx |->
                             IF v \in fresh /\ res.st[v] = "skipped" THEN "dependency-failed"
                             ELSE reason[v]]
           /\ completion' = completion \o AscSeq(fresh)
    /\ sigterm' = [i \in Idx |-> IF i \in CancelTargets THEN "cancel" ELSE sigterm[i]]
    /\ graceLeft' = [i \in Idx |-> IF i \in CancelTargets THEN forceKillDelay ELSE graceLeft[i]]
    /\ UNCHANGED <<phase, ids, deps, maxWorkers, failFast, sigkill, started,
                   failFastTripped, errorKind, report, batchExit, poolVars, callVars>>

\* every task is terminal: the BatchReport is assembled
AssembleReport ==
    /\ phase = "running"
    /\ \A i \in Idx : IsTerminal(state[i])
    /\ phase' = "reported"
    /\ report' = [k \in Idx |-> TaskResultOf(ReportOrder(completion)[k])]
    /\ batchExit' = BatchExit(state, cancelRequested)
    /\ UNCHANGED <<ids, deps, maxWorkers, failFast, state, indegree, exitCode, reason,
                   sigterm, sigkill, graceLeft, started, completion, cancelRequested,
                   failFastTripped, errorKind, poolVars, callVars>>

Next ==
    \/ Reject
    \/ Accept
    \/ \E i \in Idx : Start(i)
    \/ \E i \in Idx : \E code \in BackendExitCodes : \E hasMsg \in BOOLEAN : TaskExit(i, code, hasMsg)
    \/ \E i \in Idx : TimeoutFire(i)
    \/ Tick
    \/ \E i \in Idx : ForceKill(i)
    \/ Cancel
    \/ AssembleReport

Spec == Init /\ [][Next]_vars

(***************************************************************************)
(* Worker-pool model: a batch of independent tasks, counted.  It uses the  *)
(* scheduler's admission rule with batches larger than the cap.            *)
(***************************************************************************)
PoolTasks == maxParallelWorkersLimit + PoolSlack
PoolWorkerChoices == {0, 1, 2, maxParallelWorkersLimit - 1, maxParallelWorkersLimit,
                      maxParallelWorkersLimit + PoolSlack}

PoolInit ==
    /\ phase = "pool"
    /\ ids = [i \in Idx |-> TaskIds[i]]
    /\ deps = [i \in Idx |-> {}]
    /\ maxWorkers = 0
    /\ failFast = FALSE
    /\ state = [i \in Idx |-> "pending"]
    /\ indegree = [i \in Idx |-> 0]
    /\ exitCode = [i \in Idx |-> noExit]
    /\ reason = [i \in Idx |-> ""]
    /\ sigterm = NoTasks
    /\ sigkill = [i \in Idx |-> FALSE]
    /\ graceLeft = [i \in Idx |-> 0]
    /\ started = {}
    /\ completion = <<>>
    /\ cancelRequested = FALSE
    /\ failFastTripped = FALSE
    /\ errorKind = ""
    /\ report = <<>>
    /\ batchExit = noExit
    /\ poolN \in PoolWorkerChoices
    /\ poolReady = PoolTasks
    /\ poolRunning = 0
    /\ poolDone = 0
    /\ CallsIdle

\* a ready task is admitted to the pool and its backend process starts
PoolStart ==
    /\ poolReady > 0
    /\ CanAdmit(poolRunning, poolN)
    /\ poolReady' = poolReady - 1
    /\ poolRunning' = poolRunning + 1
    /\ UNCHANGED <<poolN, poolDone, schedVars, callVars>>

\* a running task ends and releases its slot
PoolFinish ==
    /\ poolRunning > 0
    /\ poolRunning' = poolRunning - 1
    /\ poolDone' = poolDone + 1
    /\ UNCHANGED <<poolN, poolReady, schedVars, callVars>>

PoolNext == PoolStart \/ PoolFinish

PoolSpec == PoolInit /\ [][PoolNext]_vars

(***************************************************************************)
(* Properties of the scheduler.                                            *)
(***************************************************************************)
BadEnd == {"failed", "cancelled", "timed-out", "skipped"}
Unstarted == Idx \ started

\* C1: a task's backend process is launched only when every task it lists as
\* a dependency has already reached a terminal state.
C1_DepsTerminalBeforeStart ==
    [][\A v \in Idx : (v \in started' /\ v \notin started) =>
            \A u \in DepIdx(v) : IsTerminal(state[u])]_vars

C1_Witness ==
    \E v \in started : DepIdx(v) # {} /\ state[v] = "running"

\* C2: when a task ended failed, cancelled, timed-out or skipped, each task that
\* depends on it directly or transitively is never launched and ends skipped
\* with reason dependency-failed.
C2_DependentsSkipped ==
    phase \in {"running", "reported"} =>
        \A v \in Idx : \A u \in TransDeps(v) :
            state[u] \in BadEnd =>
                /\ v \notin started
                /\ state[v] \in {"pending", "skipped"}
                /\ state[v] = "skipped" => reason[v] = "dependency-failed"
                /\ phase = "reported" => state[v] = "skipped"

C2_Witness ==
    /\ phase = "reported"
    /\ batchExit = exitGeneral
    /\ \E a \in Idx, b \in Idx, c \in Idx :
        /\ a \in DepIdx(b) /\ b \in DepIdx(c)
        /\ state[a] = "failed" /\ exitCode[a] = 2
        /\ state[b] = "skipped" /\ state[c] = "skipped"
        /\ reason[c] = "dependency-failed"

C4_DuplicateId == Cardinality({ids[i] : i \in Idx}) < BatchLen
C4_UnknownDep == \E i \in Idx : ~(deps[i] \subseteq {ids[j] : j \in Idx})
C4_Cyclic == \E i \in Idx : i \in TransDeps(i)

C4_InvalidRejected ==
    (C4_DuplicateId \/ C4_UnknownDep \/ C4_Cyclic) =>
        /\ started = {}
        /\ phase \in {"submitted", "rejected"}
        /\ phase = "rejected" => (errorKind = "InvalidConfig" /\ batchExit = exitGeneral)

C4_Witness ==
    /\ phase = "rejected"
    /\ errorKind = "InvalidConfig"
    /\ C4_Cyclic /\ ~C4_DuplicateId /\ ~C4_UnknownDep
    /\ \A i \in Idx : ids[i] \notin deps[i]

C6_IndependentTasksRun ==
    (phase \in {"running", "reported"} /\ ~failFast /\ ~cancelRequested) =>
        \A v \in Idx :
            (\A u \in TransDeps(v) : state[u] \notin BadEnd) =>
                /\ state[v] # "skipped"
                /\ IsTerminal(state[v]) => v \in started
                /\ phase = "reported" => (v \in started /\ IsTerminal(state[v]))

C6_Witness ==
    /\ ~failFast /\ ~cancelRequested
    /\ maxWorkers = 1
    /\ \E u \in Idx, v \in Idx :
        /\ state[u] = "failed"
        /\ u \notin TransDeps(v)
        /\ state[v] = "running"

\* a task that was never launched ended cancelled, or skipped because one of
\* its dependencies did not succeed
StoppedOrSkipped(v) ==
    \/ /\ state'[v] = "cancelled"
       /\ exitCode'[v] = exitInterrupted
       /\ \A u \in DepIdx(v) : state'[u] = "succeeded"
    \/ /\ state'[v] = "skipped"
       /\ reason'[v] = "dependency-failed"
       /\ \E u \in DepIdx(v) : state'[u] # "succeeded"

KillAfterGrace ==
    /\ \A i \in Idx : (sigterm[i] = "none" /\ sigterm'[i] # "none") =>
            (graceLeft'[i] = 5 /\ ~sigkill'[i])
    /\ \A i \in Idx : (sigkill'[i] /\ ~sigkill[i]) =>
            (state[i] = "running" /\ sigterm[i] # "none" /\ graceLeft[i] = 0)
    /\ (\E i \in Idx : state[i] = "running" /\ sigterm[i] # "none" /\ graceLeft[i] = 0) =>
            \A j \in Idx : (state'[j] = "running" /\ sigterm[j] # "none") =>
                graceLeft'[j] = graceLeft[j]
    /\ \A i \in Idx : (state'[i] = "running" /\ sigterm[i] # "none") =>
            graceLeft'[i] \in {graceLeft[i], graceLeft[i] - 1}

C9_TimeoutTermThenKill ==
    [][\A i \in Idx :
        /\ (state[i] = "running" /\ sigterm[i] = "none") => ENABLED TimeoutFire(i)
        /\ (sigterm[i] = "none" /\ sigterm'[i] = "timeout") =>
                (state'[i] = "running" /\ graceLeft'[i] = 5 /\ ~sigkill'[i])
        /\ (sigkill'[i] /\ ~sigkill[i] /\ sigterm[i] = "timeout") =>
                (state[i] = "running" /\ graceLeft[i] = 0)
        /\ (sigterm'[i] = "timeout" /\ IsTerminal(state'[i])) =>
                (state'[i] = "timed-out" /\ exitCode'[i] = 124)
        /\ sigkill'[i] => sigterm'[i] # "none"]_vars

C9_Witness ==
    \E i \in Idx :
        /\ sigterm[i] = "timeout" /\ sigkill[i]
        /\ state[i] = "timed-out" /\ exitCode[i] = exitTimeout

CompletedAt(i, done) == {k \in 1..Len(done) : done[k] = i}

\* C13: a task is launched at most once and gets exactly one terminal state;
\* a recorded terminal state, exit status and reason never change afterwards.
C13_ResultFrozen ==
    [][\A i \in Idx :
        /\ IsTerminal(state[i]) =>
            (state'[i] = state[i] /\ exitCode'[i] = exitCode[i] /\ reason'[i] = reason[i])
        /\ i \in started => (i \in started' /\ state'[i] \notin {"pending", "ready"})
        /\ (i \in started' /\ i \notin started) => state[i] = "ready"
        /\ Cardinality(CompletedAt(i, completion')) = (IF IsTerminal(state'[i]) THEN 1 ELSE 0)
        /\ phase' = "reported" => report'[i].state = state'[i]]_vars

C13_Witness ==
    /\ cancelRequested /\ failFastTripped
    /\ \E i \in Idx : state[i] = "failed"
    /\ \E i \in Idx : state[i] = "skipped"
    /\ \E i \in Idx : state[i] = "running" /\ sigterm[i] = "timeout"

(***************************************************************************)
(* Part 2: functions modelled on their own.  Each specification draws the  *)
(* arguments of one function in its initial state and applies it; the      *)
(* scheduler and the pool stay at rest.                                    *)
(***************************************************************************)
SchedIdle ==
    /\ phase = "call"
    /\ ids = [i \in Idx |-> TaskIds[i]]
    /\ deps = [i \in Idx |-> {}]
    /\ maxWorkers = 0
    /\ failFast = FALSE
    /\ state = [i \in Idx |-> "pending"]
    /\ indegree = [i \in Idx |-> 0]
    /\ exitCode = [i \in Idx |-> noExit]
    /\ reason = [i \in Idx |-> ""]
    /\ sigterm = NoTasks
    /\ sigkill = [i \in Idx |-> FALSE]
    /\ graceLeft = [i \in Idx |-> 0]
    /\ started = {}
    /\ completion = <<>>
    /\ cancelRequested = FALSE
    /\ failFastTripped = FALSE
    /\ errorKind = ""
    /\ report = <<>>
    /\ batchExit = noExit
    /\ poolN = 0
    /\ poolReady = 0
    /\ poolRunning = 0
    /\ poolDone = 0

(***************************************************************************)
(* Result classification of one finished backend process.                  *)
(***************************************************************************)
ClsInit ==
    /\ SchedIdle
    /\ cls \in [pc : {"exited"}, code : 0..MaxBackendExit, hasMsg : BOOLEAN]
    /\ sel = Idle /\ wt = Idle /\ rsc = Idle /\ fm = Idle /\ rapf = Idle /\ ToolsIdle

\* the wrapper turns the backend's exit status and message into a TaskResult
Classify ==
    /\ cls.pc = "exited"
    /\ cls' = [pc |-> "classified", code |-> cls.code, hasMsg |-> cls.hasMsg,
               state |-> ClassifyState(cls.code, cls.hasMsg),
               exit_code |-> ClassifyExit(cls.code, cls.hasMsg)]
    /\ UNCHANGED <<schedVars, poolVars, sel, wt, rsc, fm, rapf, toolVars>>

ClsNext == Classify

ClsSpec == ClsInit /\ [][ClsNext]_vars

\* C12: a task succeeds only with backend exit status 0 and a non-empty
\* agent message; status 0 with an empty message is failed with exit code 1;
\* 124 is timed-out; 130 is cancelled; any other non-zero status is failed
\* and the status is passed through unchanged.
C12_Classification ==
    cls.pc = "classified" =>
        /\ (cls.state = "succeeded") <=> (cls.code = 0 /\ cls.hasMsg)
        /\ (cls.state = "succeeded") => cls.exit_code = 0
        /\ (cls.code = 0 /\ ~cls.hasMsg) => (cls.state = "failed" /\ cls.exit_code = 1)
        /\ cls.code = 124 => (cls.state = "timed-out" /\ cls.exit_code = 124)
        /\ cls.code = 130 => (cls.state = "cancelled" /\ cls.exit_code = 130)
        /\ cls.code \notin {0, 124, 130} =>
              (cls.state = "failed" /\ cls.exit_code = cls.code)

C12_Witness ==
    /\ cls.pc = "classified"
    /\ cls.code = 0 /\ ~cls.hasMsg
    /\ cls.state = "failed" /\ cls.exit_code = 1

(***************************************************************************)
(* Stdin selection for the final prompt.  A prompt is a short explicit     *)
(* character sequence followed by `pad` ordinary characters, so that       *)
(* prompts around the length threshold are covered.                        *)
(***************************************************************************)
\* the grave accent (0x60), which cannot be written inside a string here
Backtick == "<0x60>"

\* variant: the dollar sign is not treated as special
stdinSpecialChars_NoDollar == {"\n", "\\", "\"", "'", Backtick}

stdinSpecialChars == {"\n", "\\", "\"", "'", Backtick, "$"}

\* length above which a prompt is no longer passed as an argument
stdinLengthThreshold == 8192

PromptChars == {"a", " ", "\n", "\\", "\"", "'", Backtick, "$"}
PromptBodies == UNION {[1..n -> PromptChars] : n \in 0..MaxBodyLen}
PadChoices == {0} \cup ((stdinLengthThreshold - MaxBodyLen - 1)..(stdinLengthThreshold + 1))

PromptLen(p) == Len(p.body) + p.pad

ContainsAny(body, chars) == \E k \in 1..Len(body) : body[k] \in chars

shouldUseStdin(p, explicit) ==
    \/ explicit
    \/ ContainsAny(p.body, stdinSpecialChars)
    \/ PromptLen(p) > stdinLengthThreshold

NoData == [body |-> <<"<none>">>, pad |-> 0]
StdinTarget == [body |-> <<"-">>, pad |-> 0]

SelInit ==
    /\ SchedIdle
    /\ sel \in [pc : {"built"},
                prompt : [body : PromptBodies, pad : PadChoices],
                explicit : BOOLEAN]
    /\ cls = Idle /\ wt = Idle /\ rsc = Idle /\ fm = Idle /\ rapf = Idle /\ ToolsIdle

\* the child is spawned: the prompt goes to its stdin or to its last argument
SpawnChild ==
    /\ sel.pc = "built"
    /\ LET useStdin == shouldUseStdin(sel.prompt, sel.explicit)
       IN  sel' = [pc |-> "spawned", prompt |-> sel.prompt, explicit |-> sel.explicit,
                   useStdin |-> useStdin,
                   stdin |-> IF useStdin THEN sel.prompt ELSE NoData,
                   lastArg |-> IF useStdin THEN StdinTarget ELSE sel.prompt]
    /\ UNCHANGED <<schedVars, poolVars, cls, wt, rsc, fm, rapf, toolVars>>

SelNext == SpawnChild

SelSpec == SelInit /\ [][SelNext]_vars

\* C14: the final prompt goes to the child's standard input whenever it
\* contains a newline, backslash, double quote, single quote, backtick or
\* dollar sign, or is longer than the threshold, or stdin was requested;
\* otherwise it is the last argument and nothing is written to stdin.
C14_StdinSelection ==
    sel.pc = "spawned" =>
        LET b == sel.prompt.body
            special == \E k \in DOMAIN b : \/ b[k] = "\n" \/ b[k] = "\\" \/ b[k] = "\""
                                           \/ b[k] = "'" \/ b[k] = Backtick \/ b[k] = "$"
            long == Len(b) + sel.prompt.pad > stdinLengthThreshold
        IN  IF special \/ long \/ sel.explicit
            THEN sel.stdin = sel.prompt /\ sel.lastArg # sel.prompt
            ELSE sel.lastArg = sel.prompt /\ sel.stdin = NoData

C14_Witness ==
    /\ sel.pc = "spawned"
    /\ ~sel.explicit
    /\ sel.prompt.body = <<"a", "$">>
    /\ sel.prompt.pad = 0
    /\ sel.stdin = sel.prompt

(***************************************************************************)
(* Working-directory resolution and the worktree manager.  Tasks of one    *)
(* invocation are run one after another; the environment is the same for   *)
(* all of them, the worktree flag and the workdir are per task.            *)
(***************************************************************************)
WtTasks == 1..MaxWtTasks
WtIds == <<"t1", "t2", "t3", "t4">>
CallerDir == <<"repo">>
ExternalTree == <<"repo", ".worktrees", "do-ext">>
MissingTree == <<"gone">>
NoDir == <<>>

\* provision(task-id): the path and the branch of a new worktree
ProvisionPath(t) == <<"repo", ".worktrees", "do-", WtIds[t]>>
ProvisionBranch(t) == <<"do", WtIds[t]>>

\* variant: the worktree flag alone decides
NeedsProvision_FlagOnly(env, flag) == flag

\* worktree mode is enabled and no external worktree path has been injected
NeedsProvision(env, flag) == flag /\ env = NoDir

WtInit ==
    /\ SchedIdle
    /\ \E env \in {NoDir, ExternalTree, MissingTree} : \E inRepo \in BOOLEAN :
         \E stale \in SUBSET {1} :
          wt = [pc |-> "run", env |-> env, inRepo |-> inRepo,
                trees |-> {ExternalTree} \cup {ProvisionPath(t) : t \in stale},
                branches |-> {<<"main">>, <<"do", "ext">>} \cup {ProvisionBranch(t) : t \in stale},
                ran |-> [t \in WtTasks |->
                          [done |-> FALSE, flag |-> FALSE, dir |-> NoDir, err |-> ""]]]
    /\ cls = Idle /\ sel = Idle /\ rsc = Idle /\ fm = Idle /\ rapf = Idle /\ ToolsIdle

WtResult(flag, dir, err) == [done |-> TRUE, flag |-> flag, dir |-> dir, err |-> err]

\* one task resolves its working directory and runs there
RunTask(t, flag, workdir) ==
    /\ wt.pc = "run"
    /\ ~wt.ran[t].done
    /\ LET base == IF workdir # NoDir THEN workdir ELSE CallerDir
       IN  IF NeedsProvision(wt.env, flag)
           THEN IF ~wt.inRepo \/ ProvisionBranch(t) \in wt.branches
                     \/ ProvisionPath(t) \in wt.trees
                THEN wt' = [wt EXCEPT !.ran[t] = WtResult(flag, NoDir, "PreconditionFailed")]
                ELSE wt' = [wt EXCEPT !.trees = @ \cup {ProvisionPath(t)},
                                      !.branches = @ \cup {ProvisionBranch(t)},
                                      !.ran[t] = WtResult(flag, ProvisionPath(t), "")]
           ELSE IF wt.env # NoDir
                THEN IF wt.env \in wt.trees
                     THEN wt' = [wt EXCEPT !.ran[t] = WtResult(flag, wt.env, "")]
                     ELSE wt' = [wt EXCEPT !.ran[t] = WtResult(flag, NoDir, "PreconditionFailed")]
                ELSE wt' = [wt EXCEPT !.ran[t] = WtResult(flag, base, "")]
    /\ UNCHANGED <<schedVars, poolVars, cls, sel, rsc, fm, rapf, toolVars>>

WtNext == \E t \in WtTasks : \E flag \in BOOLEAN : \E workdir \in {NoDir, <<"proj">>} :
             RunTask(t, flag, workdir)

WtSpec == WtInit /\ [][WtNext]_vars

\* C15: when a worktree path is supplied through the environment, the task
\* runs in that existing path and no worktree or branch is created, also
\* when the task's worktree flag is set.
C15_ExternalWorktreeReused ==
    [][(wt.pc = "run" /\ wt.env # NoDir) =>
          /\ wt'.trees = wt.trees
          /\ wt'.branches = wt.branches
          /\ \A t \in WtTasks :
                (wt'.ran[t].done /\ ~wt.ran[t].done /\ wt.env \in wt.trees) =>
                    (wt'.ran[t].dir = wt.env /\ wt'.ran[t].err = "")]_vars

C15_Witness ==
    /\ wt.pc = "run"
    /\ wt.env = ExternalTree
    /\ wt.inRepo
    /\ \E t \in WtTasks : wt.ran[t].done /\ wt.ran[t].flag /\ wt.ran[t].dir = ExternalTree
    /\ \A t \in WtTasks : ProvisionPath(t) \notin wt.trees

(***************************************************************************)
(* Strings are sequences of one-character strings; len() is Len().         *)
(***************************************************************************)
Dashes == <<"-", "-", "-">>
NL == <<"\n">>
CRLF == <<"\r", "\n">>

RECURSIVE Concat(_)
Concat(ss) == IF ss = <<>> THEN <<>> ELSE Head(ss) \o Concat(Tail(ss))

\* s[from:] with a 0-based offset
SliceFrom(s, from) == SubSeq(s, from + 1, Len(s))
\* s[:to] with a 0-based end
SliceTo(s, to) == SubSeq(s, 1, to)

HasPrefix(s, prefix) ==
    Len(s) >= Len(prefix) /\ SubSeq(s, 1, Len(prefix)) = prefix

\* strings.Index: 0-based offset of the first occurrence of sub, or -1
Index(s, sub) ==
    LET hits == {k \in 0..(Len(s) - Len(sub)) : SubSeq(s, k + 1, k + Len(sub)) = sub}
    IN  IF hits = {} THEN -1 ELSE SetMin(hits)

RECURSIVE ReplaceAll(_, _, _)
ReplaceAll(s, old, new) ==
    IF s = <<>> THEN <<>>
    ELSE IF HasPrefix(s, old) THEN new \o ReplaceAll(SliceFrom(s, Len(old)), old, new)
    ELSE <<Head(s)>> \o ReplaceAll(Tail(s), old, new)

IsSpace(c) == c \in {" ", "\t", "\n", "\r"}

RECURSIVE TrimLeft(_)
TrimLeft(s) == IF s # <<>> /\ IsSpace(Head(s)) THEN TrimLeft(Tail(s)) ELSE s

RECURSIVE TrimRight(_)
TrimRight(s) ==
    IF s # <<>> /\ IsSpace(s[Len(s)]) THEN TrimRight(SliceTo(s, Len(s) - 1)) ELSE s

TrimSpace(s) == TrimRight(TrimLeft(s))

(***************************************************************************)
(* stripYAMLFrontmatter                                                    *)
(***************************************************************************)
stripYAMLFrontmatter(s0) ==
    LET s == ReplaceAll(s0, CRLF, NL)
    IN  IF ~HasPrefix(s, Dashes) THEN s
        ELSE LET idx == Index(SliceFrom(s, 3), NL \o Dashes)
             IN  IF idx < 0 THEN s
                 ELSE LET result == SliceFrom(s, 3 + idx + 4)
                          rest == IF Len(result) > 0 /\ result[1] = "\n"
                                  THEN SliceFrom(result, 1) ELSE result
                      IN  TrimSpace(rest)

StripTokens == {Dashes, NL, <<"x">>, CRLF}
StripInputs == {Concat(ts) : ts \in UNION {[1..n -> StripTokens] : n \in 0..MaxTokens}}

FmInit ==
    /\ SchedIdle
    /\ fm \in [pc : {"call"}, s : StripInputs]
    /\ cls = Idle /\ sel = Idle /\ wt = Idle /\ rsc = Idle /\ rapf = Idle /\ ToolsIdle

\* the stripper is applied once
StripOnce ==
    /\ fm.pc = "call"
    /\ fm' = [pc |-> "once", s |-> fm.s, once |-> stripYAMLFrontmatter(fm.s)]
    /\ UNCHANGED <<schedVars, poolVars, cls, sel, wt, rsc, rapf, toolVars>>

\* the stripper is applied to its own result
StripTwice ==
    /\ fm.pc = "once"
    /\ fm' = [pc |-> "twice", s |-> fm.s, once |-> fm.once,
              twice |-> stripYAMLFrontmatter(fm.once)]
    /\ UNCHANGED <<schedVars, poolVars, cls, sel, wt, rsc, rapf, toolVars>>

FmNext == StripOnce \/ StripTwice

FmSpec == FmInit /\ [][FmNext]_vars

\* C18: stripYAMLFrontmatter is idempotent: stripping the result again
\* gives the same string, also when the body after the front-matter begins
\* with a line of three dashes.
C18_StripIdempotent ==
    fm.pc = "twice" => fm.twice = fm.once

(***************************************************************************)
(* ResolveSkillContent, one loop iteration per step.                       *)
(***************************************************************************)
defaultSkillBudget == 16000

\* variant: dots are accepted in skill names
SkillNameChars_WithDot ==
    {"_", "-", "."} \cup {"a", "b", "z", "B"} \cup {"9"}

\* the character class of validSkillName, ^[a-zA-Z0-9_-]+$
SkillNameChars ==
    {"a", "b", "c", "d", "e", "f", "g", "h", "i", "j", "k", "l", "m", "n", "o", "p", "q", "r", "s", "t", "u", "v", "w", "x", "y", "z"}
    \cup {"A", "B", "C", "D", "E", "F", "G", "H", "I", "J", "K", "L", "M", "N", "O", "P", "Q", "R", "S", "T", "U", "V", "W", "X", "Y", "Z"}
    \cup {"0", "1", "2", "3", "4", "5", "6", "7", "8", "9"}
    \cup {"_", "-"}

validSkillName(name) ==
    Len(name) >= 1 /\ \A k \in 1..Len(name) : name[k] \in SkillNameChars

\* wrapper tags of one skill block
SkillOpen == <<"<", "s", "k", "i", "l", "l", " ", "n", "a", "m", "e", "=", "\"">>
SkillOpenEnd == <<"\"", ">">>
SkillClose == <<"\n", "<", "/", "s", "k", "i", "l", "l", ">">>

\* variant: the closing tag follows the body on the same line
SkillBlock_NoNewline(name, body) ==
    SkillOpen \o name \o SkillOpenEnd \o NL \o body \o SliceFrom(SkillClose, 1)

SkillBlock(name, body) == SkillOpen \o name \o SkillOpenEnd \o NL \o body \o SkillClose

\* strings.Join(sections, "\n\n")
RECURSIVE JoinSections(_)
JoinSections(sections) ==
    IF sections = <<>> THEN <<>>
    ELSE IF Len(sections) = 1 THEN sections[1]
    ELSE sections[1] \o NL \o NL \o JoinSections(Tail(sections))

\* filepath.Join(root, skill, "SKILL.md") for the two roots, in search order
\* variant: the Claude directory is searched first
SkillRoots_ClaudeFirst == <<".claude", ".codex">>

SkillRoots == <<".codex", ".claude">>
SkillPath(root, skill) == <<root, "skills", skill, "SKILL.md">>

\* the SKILL.md files installed under the home directory
SkillFiles ==
    (SkillPath(".codex", <<"a">>) :> <<"-", "-", "-", "\n", "k", "\n", "-", "-", "-", "\n", "a", "b", "c", "d", "e", "f">>)
    @@ (SkillPath(".claude", <<"a">>) :> <<"z", "z">>)
    @@ (SkillPath(".claude", <<"B", "9">>) :> <<" ", " ", "h", "e", "l", "l", "o", " ", "w", "o", "r", "l", "d", " ", "\n">>)
    @@ (SkillPath(".codex", <<"_", "-">>) :> <<>>)
    @@ (SkillPath(".claude", <<"_", "-">>) :> <<"x">>)

\* the paths findSkillFile stats for a skill, and the path it returns
StatPaths(skill) ==
    IF SkillPath(SkillRoots[1], skill) \in DOMAIN SkillFiles
    THEN {SkillPath(SkillRoots[1], skill)}
    ELSE {SkillPath(SkillRoots[1], skill), SkillPath(SkillRoots[2], skill)}

NoPath == <<>>

findSkillFile(skill) ==
    IF SkillPath(SkillRoots[1], skill) \in DOMAIN SkillFiles THEN SkillPath(SkillRoots[1], skill)
    ELSE IF SkillPath(SkillRoots[2], skill) \in DOMAIN SkillFiles THEN SkillPath(SkillRoots[2], skill)
    ELSE NoPath

SkillNameChoices ==
    {<<"a">>, <<"B", "9">>, <<"_", "-">>, <<"z">>, <<".", ".">>, <<"a", " ", "b">>, <<>>, <<" ", "a">>}
SkillLists == UNION {[1..n -> SkillNameChoices] : n \in 0..MaxSkills}
BudgetChoices == {-1, 0} \cup (20..MaxBudget)

RscInit ==
    /\ SchedIdle
    /\ rsc \in [pc : {"call"}, skills : SkillLists, arg : BudgetChoices]
    /\ cls = Idle /\ sel = Idle /\ wt = Idle /\ fm = Idle /\ rapf = Idle /\ ToolsIdle

\* entry: the home directory is looked up and the budget defaulted
RscEnter ==
    /\ rsc.pc = "call"
    /\ \E homeErr \in BOOLEAN :
         IF homeErr
         THEN rsc' = [pc |-> "done", skills |-> rsc.skills, arg |-> rsc.arg,
                      maxBudget |-> rsc.arg, remaining |-> 0, i |-> 1,
                      sections |-> <<>>, emitted |-> <<>>, warnings |-> <<>>,
                      statted |-> {}, reads |-> {}, result |-> <<>>]
         ELSE LET maxBudget == IF rsc.arg <= 0 THEN defaultSkillBudget ELSE rsc.arg
              IN  rsc' = [pc |-> "loop", skills |-> rsc.skills, arg |-> rsc.arg,
                          maxBudget |-> maxBudget, remaining |-> maxBudget, i |-> 1,
                          sections |-> <<>>, emitted |-> <<>>, warnings |-> <<>>,
                          statted |-> {}, reads |-> {}, result |-> <<>>]
    /\ UNCHANGED <<schedVars, poolVars, cls, sel, wt, fm, rapf, toolVars>>

Warn(r, name, kind) == Append(r.warnings, [name |-> name, kind |-> kind])

\* variant: only a negative body budget stops the loop
InsufficientBudget_Negative(bodyBudget) == bodyBudget < 0

InsufficientBudget(bodyBudget) == bodyBudget <= 0

\* one iteration of `for _, name := range skills`
RscIterate ==
    /\ rsc.pc = "loop"
    /\ rsc.i <= Len(rsc.skills)
    /\ LET name == TrimSpace(rsc.skills[rsc.i])
           next == [rsc EXCEPT !.i = @ + 1]
           path == findSkillFile(name)
           data == IF path = NoPath THEN <<>> ELSE SkillFiles[path]
           body == stripYAMLFrontmatter(TrimSpace(data))
           tagOverhead == Len(SkillOpen \o SkillOpenEnd) + Len(name) + Len(NL) + Len(SkillClose)
           bodyBudget == rsc.remaining - tagOverhead
           cut == IF Len(body) > bodyBudget THEN SliceTo(body, bodyBudget) ELSE body
           left == rsc.remaining - (Len(cut) + tagOverhead)
       IN  IF name = <<>> THEN rsc' = next
           ELSE IF ~validSkillName(name)
           THEN rsc' = [next EXCEPT !.warnings = Warn(rsc, name, "invalid name")]
           ELSE IF path = NoPath
           THEN rsc' = [next EXCEPT !.warnings = Warn(rsc, name, "not found or empty"),
                                    !.statted = @ \cup StatPaths(name)]
           ELSE IF Len(data) = 0
           THEN rsc' = [next EXCEPT !.warnings = Warn(rsc, name, "not found or empty"),
                                    !.statted = @ \cup StatPaths(name),
                                    !.reads = @ \cup {path}]
           ELSE IF InsufficientBudget(bodyBudget)
           THEN rsc' = [next EXCEPT !.pc = "join",
                                    !.warnings = Warn(rsc, name, "insufficient budget for tags"),
                                    !.statted = @ \cup StatPaths(name),
                                    !.reads = @ \cup {path}]
           ELSE rsc' = [next EXCEPT
                          !.pc = IF left <= 0 THEN "join" ELSE "loop",
                          !.warnings = IF Len(body) > bodyBudget
                                       THEN Warn(rsc, name, "truncated") ELSE @,
                          !.statted = @ \cup StatPaths(name),
                          !.reads = @ \cup {path},
                          !.remaining = left,
                          !.sections = Append(@, SkillBlock(name, cut)),
                          !.emitted = Append(@, [name |-> name, bodyLen |-> Len(cut),
                                                 truncated |-> Len(body) > bodyBudget,
                                                 before |-> rsc.remaining,
                                                 tags |-> tagOverhead])]
    /\ UNCHANGED <<schedVars, poolVars, cls, sel, wt, fm, rapf, toolVars>>

\* the loop is over: the sections are joined and returned
RscReturn ==
    /\ \/ rsc.pc = "join"
       \/ rsc.pc = "loop" /\ rsc.i > Len(rsc.skills)
    /\ rsc' = [rsc EXCEPT !.pc = "done", !.result = JoinSections(rsc.sections)]
    /\ UNCHANGED <<schedVars, poolVars, cls, sel, wt, fm, rapf, toolVars>>

RscNext == RscEnter \/ RscIterate \/ RscReturn

RscSpec == RscInit /\ [][RscNext]_vars

RECURSIVE SumLen(_)
SumLen(ss) == IF ss = <<>> THEN 0 ELSE Len(Head(ss)) + SumLen(Tail(ss))

\* C16: for every list of skill names and every budget B (B <= 0 meaning
\* 16000) the emitted blocks, tags and body together, sum to at most B; a
\* skill whose tags do not fit in what remains is omitted, and no block is
\* emitted with its body truncated to zero bytes.
C16_BlocksWithinBudget ==
    rsc.pc \in {"loop", "join", "done"} =>
        /\ SumLen(rsc.sections) <= (IF rsc.arg <= 0 THEN 16000 ELSE rsc.arg)
        /\ \A k \in 1..Len(rsc.emitted) :
              /\ rsc.emitted[k].tags <= rsc.emitted[k].before
              /\ rsc.emitted[k].truncated => rsc.emitted[k].bodyLen >= 1
              /\ Len(rsc.sections[k]) = rsc.emitted[k].tags + rsc.emitted[k].bodyLen

C16_Witness ==
    /\ rsc.pc = "done"
    /\ rsc.arg > 0
    /\ Len(rsc.emitted) = 2
    /\ rsc.emitted[2].truncated
    /\ rsc.emitted[2].bodyLen = 1
    /\ SumLen(rsc.sections) = rsc.arg

\* C17: for every list of skill names and every positive budget B the
\* returned string, blank-line separators included, is at most B bytes long.
C17_ResultWithinBudget ==
    (rsc.pc = "done" /\ rsc.arg > 0) => Len(rsc.result) <= rsc.arg

\* a name with a character outside [a-zA-Z0-9_-], over the characters the
\* requested names are made of
HasBadChar(n) == \E k \in 1..Len(n) : n[k] \in {".", "/", " ", "\\"}

\* the step that handles requested name `raw` drops it with a warning for
\* `warned`, touches no file, emits nothing and goes on with the next name
DroppedWithWarning(warned) ==
    /\ rsc'.pc = "loop"
    /\ rsc'.i = rsc.i + 1
    /\ rsc'.statted = rsc.statted
    /\ rsc'.reads = rsc.reads
    /\ rsc'.sections = rsc.sections
    /\ rsc'.remaining = rsc.remaining
    /\ rsc'.warnings = Append(rsc.warnings, [name |-> warned, kind |-> "invalid name"])

Handling == rsc.pc = "loop" /\ rsc.i <= Len(rsc.skills)

\* C19 as stated: every requested name that does not match
\* ^[a-zA-Z0-9_-]+$ is dropped with a warning, without a path being built, a
\* file being read or a block being emitted, and the rest is still processed.
C19_AsStated ==
    [][(/\ Handling
        /\ (rsc.skills[rsc.i] = <<>> \/ HasBadChar(rsc.skills[rsc.i])))
          => DroppedWithWarning(rsc.skills[rsc.i])]_vars

\* C19: every requested name that, once surrounding whitespace is trimmed,
\* is not empty and does not match ^[a-zA-Z0-9_-]+$ is dropped with a
\* warning, without a path being built, a file being read or a block being
\* emitted, and the remaining names are still processed.
C19_InvalidNamesDropped ==
    [][(/\ Handling
        /\ TrimSpace(rsc.skills[rsc.i]) # <<>>
        /\ HasBadChar(TrimSpace(rsc.skills[rsc.i])))
          => DroppedWithWarning(TrimSpace(rsc.skills[rsc.i]))]_vars

C19_Witness ==
    /\ rsc.pc = "done"
    /\ rsc.skills = << <<".", ".">>, <<"a", " ", "b">>, <<"a">> >>
    /\ Len(rsc.warnings) = 2
    /\ rsc.warnings[1] = [name |-> <<".", ".">>, kind |-> "invalid name"]
    /\ Len(rsc.emitted) = 1
    /\ rsc.emitted[1].name = <<"a">>
    /\ rsc.statted = {SkillPath(".codex", <<"a">>)}

(***************************************************************************)
(* ReadAgentPromptFile.  A path is written as a form ("tilde" for ~ and    *)
(* ~/..., "abs" for /..., "rel" for a relative path, "blank" for an empty  *)
(* or all-whitespace string) and a sequence of components; absolute paths  *)
(* are sequences of components below the root.                             *)
(***************************************************************************)
Home == <<"home", "u">>
PathComps == {".claude", ".codex", ".codeagent", "agents", "..", "f"}
CompSeqs == UNION {[1..n -> PathComps] : n \in 0..MaxPathLen}
PathInputs ==
    {[form |-> "blank", comps |-> <<>>]}
    \cup [form : {"tilde", "abs"}, comps : CompSeqs]
    \cup [form : {"rel"}, comps : CompSeqs \ {<<>>}]
CwdChoices == {<<"work">>, Home \o <<".claude">>}

\* filepath.Clean of an absolute path
RECURSIVE CleanOnto(_, _)
CleanOnto(out, rest) ==
    IF rest = <<>> THEN out
    ELSE IF Head(rest) = "." THEN CleanOnto(out, Tail(rest))
    ELSE IF Head(rest) = ".."
         THEN CleanOnto(IF out = <<>> THEN out ELSE SliceTo(out, Len(out) - 1), Tail(rest))
    ELSE CleanOnto(Append(out, Head(rest)), Tail(rest))

Clean(path) == CleanOnto(<<>>, path)

\* filepath.Abs, which also cleans
Abs(form, comps, cwd) == Clean(IF form = "rel" THEN cwd \o comps ELSE comps)

\* length of the longest common prefix of two paths
RECURSIVE CommonLen(_, _)
CommonLen(a, b) ==
    IF a = <<>> \/ b = <<>> \/ Head(a) # Head(b) THEN 0
    ELSE 1 + CommonLen(Tail(a), Tail(b))

\* filepath.Rel(dir, path) for clean absolute paths
Rel(dir, path) ==
    LET c == CommonLen(dir, path)
        rel == [k \in 1..(Len(dir) - c) |-> ".."] \o SliceFrom(path, c)
    IN  IF rel = <<>> THEN <<".">> ELSE rel

\* variant: only the parent itself is refused
isWithinDir_ParentOnly(path, dir) ==
    LET rel == Rel(dir, path)
    IN  IF rel = <<".">> THEN TRUE
        ELSE IF rel = <<"..">> THEN FALSE
        ELSE TRUE

isWithinDir(path, dir) ==
    LET rel == Rel(dir, path)
    IN  IF rel = <<".">> THEN TRUE
        ELSE IF rel = <<"..">> THEN FALSE
        ELSE ~(Len(rel) >= 2 /\ rel[1] = "..")

allowedDirs ==
    <<Home \o <<".claude">>, Home \o <<".codex">>, Home \o <<".codeagent", "agents">>>>

\* the regular files of the file system and what they hold
PromptData == <<"p", "\r", "\n">>
RegularFiles ==
    {Home \o <<".claude", "f">>, Home \o <<".codex", "f">>,
     Home \o <<".codeagent", "agents", "f">>, Home \o <<".codeagent", "f">>,
     Home \o <<"f">>, <<"work", "f">>, <<"etc", "f">>, <<"f">>}
Directories ==
    UNION {{SliceTo(p, n) : n \in 0..(Len(p) - 1)} : p \in RegularFiles}
    \cup {Home \o <<".claude", "agents">>}

\* symbolic links: none, a file link leaving ~/.claude, a directory link,
\* an allowed directory that is itself a link
LinkChoices ==
    { [p \in {} |-> <<>>],
      (Home \o <<".claude", "f">>) :> <<"etc", "f">>,
      (Home \o <<".claude", "agents">>) :> <<"etc">>,
      ((Home \o <<".codex">>) :> <<"etc">>) @@ ((Home \o <<".claude", "f">>) :> <<"etc", "f">>) }

\* the location a path leads to once the links on the way are followed
RECURSIVE Follow(_, _, _)
Follow(at, rest, links) ==
    IF rest = <<>> THEN at
    ELSE LET step == Append(at, Head(rest))
         IN  Follow(IF step \in DOMAIN links THEN links[step] ELSE step, Tail(rest), links)

\* filepath.EvalSymlinks: fails when the location does not exist
EvalSymlinks(path, links) ==
    LET to == Follow(<<>>, path, links)
    IN  [err |-> to \notin RegularFiles \cup Directories, path |-> to]

\* os.ReadFile
ReadFile(path, links) ==
    LET to == Follow(<<>>, path, links)
    IN  IF to \in RegularFiles THEN [err |-> FALSE, data |-> PromptData]
        ELSE [err |-> TRUE, data |-> <<>>]

\* strings.TrimRight(s, "\r\n")
RECURSIVE TrimRightCRLF(_)
TrimRightCRLF(s) ==
    IF s # <<>> /\ s[Len(s)] \in {"\r", "\n"} THEN TrimRightCRLF(SliceTo(s, Len(s) - 1)) ELSE s

WithinAny(path, dirs) == \E k \in 1..Len(dirs) : isWithinDir(path, dirs[k])

RapfInit ==
    /\ SchedIdle
    /\ rapf \in [pc : {"call"}, path : PathInputs, allowOutsideClaudeDir : BOOLEAN,
                 cwd : CwdChoices, links : LinkChoices]
    /\ cls = Idle /\ sel = Idle /\ wt = Idle /\ rsc = Idle /\ fm = Idle /\ ToolsIdle

RapfReturn(content, err, absPath, didRead, homeErr) ==
    [pc |-> "done", path |-> rapf.path, allowOutsideClaudeDir |-> rapf.allowOutsideClaudeDir,
     cwd |-> rapf.cwd, links |-> rapf.links, homeErr |-> homeErr,
     absPath |-> absPath, didRead |-> didRead, content |-> content, err |-> err]

\* variant: the resolved location is not looked at
ResolvedAllowed_Skipped(absPath, links) == TRUE

\* the resolved-location check of restricted mode passes
ResolvedAllowed(absPath, links) ==
    LET resolved == EvalSymlinks(absPath, links)
        bases == {EvalSymlinks(allowedDirs[k], links) : k \in 1..Len(allowedDirs)}
        resolvedAllowed == {b.path : b \in {x \in bases : ~x.err}}
    IN  \/ resolved.err
        \/ resolvedAllowed = {}
        \/ \E d \in resolvedAllowed : isWithinDir(resolved.path, d)

\* one call of ReadAgentPromptFile(path, allowOutsideClaudeDir)
ReadAgentPromptFile ==
    /\ rapf.pc = "call"
    /\ \E homeErr \in BOOLEAN :
         LET in == rapf.path
             expanded == IF in.form = "tilde" THEN Home \o in.comps ELSE in.comps
             absPath == Abs(in.form, expanded, rapf.cwd)
             file == ReadFile(absPath, rapf.links)
             read == IF file.err
                     THEN RapfReturn(<<>>, TRUE, absPath, TRUE, homeErr)
                     ELSE RapfReturn(TrimRightCRLF(file.data), FALSE, absPath, TRUE, homeErr)
             refuse == RapfReturn(<<>>, TRUE, absPath, FALSE, homeErr)
         IN  rapf' =
               IF in.form = "blank" THEN RapfReturn(<<>>, FALSE, <<>>, FALSE, homeErr)
               ELSE IF in.form = "tilde" /\ homeErr THEN RapfReturn(<<>>, TRUE, <<>>, FALSE, homeErr)
               ELSE IF homeErr
                    THEN IF ~rapf.allowOutsideClaudeDir THEN refuse ELSE read
               ELSE IF rapf.allowOutsideClaudeDir THEN read
               ELSE IF ~WithinAny(absPath, allowedDirs) THEN refuse
               ELSE IF ~ResolvedAllowed(absPath, rapf.links) THEN refuse
               ELSE read
    /\ UNCHANGED <<schedVars, poolVars, cls, sel, wt, rsc, fm, toolVars>>

RapfNext == ReadAgentPromptFile

RapfSpec == RapfInit /\ [][RapfNext]_vars

\* the cleaned absolute form of the path as written
WrittenAbs(r) ==
    Clean(IF r.path.form = "tilde" THEN Home \o r.path.comps
          ELSE IF r.path.form = "abs" THEN r.path.comps
          ELSE r.cwd \o r.path.comps)

IsUnder(path, dir) == Len(path) >= Len(dir) /\ SliceTo(path, Len(dir)) = dir

OutsideAllowed(path) ==
    /\ ~IsUnder(path, <<"home", "u", ".claude">>)
    /\ ~IsUnder(path, <<"home", "u", ".codex">>)
    /\ ~IsUnder(path, <<"home", "u", ".codeagent", "agents">>)

Refused == rapf.err /\ rapf.content = <<>> /\ ~rapf.didRead

\* C20 as stated: in restricted mode every path whose cleaned absolute form
\* is outside ~/.claude, ~/.codex and ~/.codeagent/agents gets an error and
\* no content, before the file is read.
C20_AsStated ==
    (rapf.pc = "done" /\ ~rapf.allowOutsideClaudeDir /\ OutsideAllowed(WrittenAbs(rapf)))
        => Refused

\* C20: in restricted mode every path that is not blank and whose cleaned
\* absolute form is outside ~/.claude, ~/.codex and ~/.codeagent/agents,
\* also one that leaves an allowed directory through "..", gets an error
\* and no content, and the file is not read, whether or not it exists.
C20_OutsideRefused ==
    (/\ rapf.pc = "done"
     /\ ~rapf.allowOutsideClaudeDir
     /\ rapf.path.form # "blank"
     /\ OutsideAllowed(WrittenAbs(rapf)))
        => Refused

C20_Witness ==
    /\ rapf.pc = "done"
    /\ ~rapf.allowOutsideClaudeDir
    /\ ~rapf.homeErr
    /\ rapf.path = [form |-> "tilde", comps |-> <<".claude", "..", "f">>]
    /\ rapf.absPath = <<"home", "u", "f">>
    /\ rapf.absPath \in RegularFiles
    /\ Refused

CodexCopy(name) == <<".codex", "skills", name, "SKILL.md">>
ClaudeCopy(name) == <<".claude", "skills", name, "SKILL.md">>

\* C21: when a SKILL.md for a requested name exists under the Codex skills
\* directory, that file is the one used and the copy under the Claude skills
\* directory is never touched; the Claude copy is used only when there is no
\* Codex copy.
C21_CodexCopyPreferred ==
    rsc.pc \in {"loop", "join", "done"} =>
        /\ \A p \in rsc.reads \cup rsc.statted :
              p[1] = ".claude" => CodexCopy(p[3]) \notin DOMAIN SkillFiles
        /\ \A k \in 1..Len(rsc.emitted) :
              LET n == rsc.emitted[k].name
                  used == IF CodexCopy(n) \in DOMAIN SkillFiles
                          THEN SkillFiles[CodexCopy(n)] ELSE SkillFiles[ClaudeCopy(n)]
                  body == stripYAMLFrontmatter(TrimSpace(used))
              IN  rsc.sections[k] = SkillBlock(n, SliceTo(body, rsc.emitted[k].bodyLen))

C21_Witness ==
    /\ rsc.pc = "done"
    /\ rsc.skills = << <<"a">>, <<"B", "9">> >>
    /\ rsc.reads = {CodexCopy(<<"a">>), ClaudeCopy(<<"B", "9">>)}
    /\ ClaudeCopy(<<"a">>) \in DOMAIN SkillFiles
    /\ Len(rsc.emitted) = 2
    /\ ~rsc.emitted[2].truncated

(***************************************************************************)
(* uninstall.sh, one run.  The install directory is the set of the files   *)
(* below it; a shell config file is a sequence of lines, or Absent.        *)
(***************************************************************************)
Modules == {"do", "bmad", "omo"}

\* the files a module's installation puts below the install directory
ModuleFiles(m) ==
    IF m = "do" THEN {<<"skills", "do", "SKILL.md">>, <<"agents", "do-develop.md">>}
    ELSE IF m = "bmad" THEN {<<"agents", "bmad-orchestrator.md">>, <<"commands", "bmad-pilot.md">>}
    ELSE {<<"skills", "omo", "SKILL.md">>, <<"docs", "omo.md">>}

WrapperFile == <<"bin", "codeagent-wrapper">>
StatusFile == <<"installed_modules.json">>
UserFile == <<"notes.txt">>

\* the module a file below the install directory belongs to, or "none"
ModuleOf(f) ==
    IF \E m \in Modules : f \in ModuleFiles(m)
    THEN CHOOSE m \in Modules : f \in ModuleFiles(m)
    ELSE "none"

\* an install directory as the installers leave it
InstalledTree(installed, withUserFile) ==
    UNION {ModuleFiles(m) : m \in installed}
    \cup (IF installed # {} THEN {StatusFile, <<"install.log">>, <<"CLAUDE.md">>} ELSE {})
    \cup (IF installed \cap {"do", "omo"} # {} THEN {WrapperFile} ELSE {})
    \cup (IF withUserFile THEN {UserFile} ELSE {})

Absent == <<"<absent>">>
MarkerLine == "# Added by myclaude installer"
ExportLine == "export PATH=\"${BIN_DIR}:$PATH\""
OtherLine == "alias ll='ls -l'"
RcChoices == {Absent, <<OtherLine>>, <<OtherLine, MarkerLine, ExportLine>>, <<MarkerLine, ExportLine>>}

UnInit ==
    /\ SchedIdle
    /\ \E installed \in SUBSET Modules : \E withUserFile \in BOOLEAN :
         \E opts \in [MODULES : {{}, {"do"}, {"bmad"}}, DRY_RUN : BOOLEAN, PURGE : BOOLEAN,
                      YES : BOOLEAN, LIST_ONLY : BOOLEAN, response : BOOLEAN] :
           \E bashrc \in RcChoices : \E zshrc \in {Absent, <<MarkerLine, ExportLine, OtherLine>>} :
             un = [pc |-> "start", opts |-> opts,
                   files |-> InstalledTree(installed, withUserFile),
                   status |-> installed,
                   bashrc |-> bashrc, zshrc |-> zshrc, backups |-> {}]
    /\ cls = Idle /\ sel = Idle /\ wt = Idle /\ rsc = Idle /\ fm = Idle /\ rapf = Idle
    /\ npx = Idle /\ dps = Idle /\ ppc = Idle /\ ins = Idle

\* what lines 161-187 remove when --purge is not given
RemovedWithoutPurge(f) ==
    \/ f = WrapperFile
    \/ f[1] \in {"commands", "agents", "skills", "docs"} /\ Len(f) > 1
    \/ f \in {<<"CLAUDE.md">>, <<"install.log">>, <<"installed_modules.json">>,
              <<"installed_modules.json.bak">>}

RECURSIVE FilterLines(_, _)
FilterLines(lines, drop) ==
    IF lines = <<>> THEN <<>>
    ELSE IF Head(lines) \in drop THEN FilterLines(Tail(lines), drop)
    ELSE <<Head(lines)>> \o FilterLines(Tail(lines), drop)

NeedsCleanup(rc) == rc # Absent /\ \E k \in 1..Len(rc) : rc[k] = MarkerLine
\* the last grep of the pipeline selects no line: the script stops (set -e)
CleanupFails(rc) == NeedsCleanup(rc) /\ FilterLines(rc, {MarkerLine, ExportLine}) = <<>>
CleanedRc(rc) ==
    IF NeedsCleanup(rc) /\ ~CleanupFails(rc) THEN FilterLines(rc, {MarkerLine, ExportLine}) ELSE rc

UnExit(how) == [un EXCEPT !.pc = how]

\* one run of the script, from option parsing to exit
Uninstall ==
    /\ un.pc = "start"
    /\ LET o == un.opts
           INSTALLED == IF StatusFile \in un.files THEN un.status ELSE {}
           SELECTED == IF o.MODULES # {} THEN o.MODULES ELSE INSTALLED
           kept == IF o.PURGE THEN {} ELSE {f \in un.files : ~RemovedWithoutPurge(f)}
           bashFails == CleanupFails(un.bashrc)
           zshFails == ~bashFails /\ CleanupFails(un.zshrc)
       IN  IF un.files = {} THEN un' = UnExit("nothing to uninstall")
           ELSE IF o.LIST_ONLY THEN un' = UnExit("listed")
           ELSE IF SELECTED = {} /\ ~o.PURGE THEN un' = UnExit("no modules")
           ELSE IF ~o.YES /\ ~o.DRY_RUN /\ ~o.response THEN un' = UnExit("aborted")
           ELSE IF o.DRY_RUN THEN un' = UnExit("dry run")
           ELSE un' = [un EXCEPT
                  !.pc = IF bashFails \/ zshFails THEN "stopped in cleanup" ELSE "complete",
                  !.files = kept,
                  !.status = IF StatusFile \in kept THEN @ ELSE {},
                  !.bashrc = CleanedRc(@),
                  !.zshrc = IF bashFails THEN @ ELSE CleanedRc(@),
                  !.backups = (IF NeedsCleanup(un.bashrc) THEN {"bashrc"} ELSE {})
                              \cup (IF ~bashFails /\ NeedsCleanup(un.zshrc)
                                    THEN {"zshrc"} ELSE {})]
    /\ UNCHANGED <<schedVars, poolVars, cls, sel, wt, rsc, fm, rapf, npx, dps, ppc, ins>>

UnNext == Uninstall

UnSpec == UnInit /\ [][UnNext]_vars

\* C22: a run with --module M removes only what belongs to M: the files of
\* the other installed modules and their entries in installed_modules.json
\* stay in place.
C22_OtherModulesKept ==
    [][(un.pc = "start" /\ un.opts.MODULES # {} /\ ~un.opts.PURGE) =>
          /\ \A f \in un.files :
                ModuleOf(f) \in Modules \ un.opts.MODULES => f \in un'.files
          /\ \A m \in un.status \ un.opts.MODULES :
                StatusFile \in un.files => (StatusFile \in un'.files /\ m \in un'.status)]_vars

(***************************************************************************)
(* The npx installer (install, --update, uninstall).  The install          *)
(* directory is a function from the paths the package can install to what  *)
(* is found there: "absent", "repo" (the package's content) or "user"      *)
(* (any other content).  One selected item is handled per step.            *)
(***************************************************************************)
WRAPPER_REQUIRED_MODULES == {"do", "omo"}
WRAPPER_REQUIRED_SKILLS == {"dev"}

DoSkill == <<"skills", "do", "SKILL.md">>
DoHooks == <<"skills", "do", "hooks", "hooks.json">>
BmadAgent == <<"agents", "bmad.md">>
BmadCmd == <<"commands", "bmad.md">>
OmoDoc == <<"docs", "omo.md">>
DevSkill == <<"skills", "dev", "SKILL.md">>
BrowserSkill == <<"skills", "browser", "SKILL.md">>
ClaudeMd == <<"CLAUDE.md">>
MineAgent == <<"agents", "mine.md">>
NpxPaths == {DoSkill, DoHooks, BmadAgent, BmadCmd, OmoDoc, DevSkill, BrowserSkill,
             WrapperFile, ClaudeMd, MineAgent}

\* config.json: the operations of each module, with the files of each source
NpxOps(m) ==
    IF m = "do" THEN <<[type |-> "copy_dir", target |-> <<"skills", "do">>, files |-> {DoSkill, DoHooks}]>>
    ELSE IF m = "bmad" THEN <<[type |-> "merge_dir", target |-> <<>>, files |-> {BmadAgent, BmadCmd}],
                              [type |-> "run_command", target |-> <<>>, files |-> {}]>>
    ELSE <<[type |-> "copy_file", target |-> OmoDoc, files |-> {OmoDoc}]>>
ModulesWithAgents == {"omo"}
SkillFilesOf(skill) == IF skill = "dev" THEN {DevSkill} ELSE {BrowserSkill}

\* buildItems: the wrapper, the modules in config order, the skills sorted
NpxItems ==
    <<[kind |-> "wrapper", name |-> "codeagent-wrapper"],
      [kind |-> "module", name |-> "do"], [kind |-> "module", name |-> "bmad"],
      [kind |-> "module", name |-> "omo"],
      [kind |-> "skill", name |-> "browser"], [kind |-> "skill", name |-> "dev"]>>

RECURSIVE SelectItems(_, _)
SelectItems(items, chosen) ==
    IF items = <<>> THEN <<>>
    ELSE (IF Head(items) \in chosen THEN <<Head(items)>> ELSE <<>>)
         \o SelectItems(Tail(items), chosen)

Exists(files, path) == \E f \in NpxPaths : files[f] # "absent" /\ IsUnder(f, path)

\* installed_modules.json: NoStatus when there is no file, else the record
\* of each module (merge_dir_files when it has one)
NoStatus == [file |-> FALSE, modules |-> {}, merge |-> {}]

\* the install directories the installer may find
EmptyDir == [f \in NpxPaths |-> "absent"]
FreshDir == [f \in NpxPaths |-> IF f = MineAgent THEN "absent" ELSE "repo"]
EditedDir == [f \in NpxPaths |->
                IF f \in {DoSkill, BmadAgent, OmoDoc, DevSkill, MineAgent, ClaudeMd} THEN "user"
                ELSE "absent"]
NpxDirChoices ==
    {[files |-> EmptyDir, status |-> NoStatus, hooks |-> {}, models |-> {}],
     [files |-> FreshDir,
      status |-> [file |-> TRUE, modules |-> Modules, merge |-> {BmadAgent, BmadCmd}],
      hooks |-> {"do"}, models |-> {"omo"}],
     [files |-> EditedDir, status |-> NoStatus, hooks |-> {}, models |-> {}]}

\* the command of bmad's run_command operation, a sequence of pieces
InstallCommand == <<"bash install.sh">>
CommandChoices == {InstallCommand, <<" ", "bash install.sh", "\n">>, <<"rm -rf ~">>,
                   <<"bash install.sh", " ", "--all">>, <<>>}
\* the kind of operation that fails in a run, if any
FaultChoices == {"none", "copy_file", "copy_dir", "merge_dir", "install.sh"}

NpxStart(args, chosen, dir, fault, command) ==
    [pc |-> "main", args |-> args, chosen |-> chosen, picks |-> <<>>, i |-> 1,
     files |-> dir.files, status |-> dir.status, hooks |-> dir.hooks,
     models |-> dir.models, mkdirs |-> {}, writes |-> {},
     installShRuns |-> 0, wrapperInstalled |-> FALSE,
     fault |-> fault, command |-> command, error |-> ""]

NpxInit ==
    /\ SchedIdle
    /\ \E args \in [command : {"install", "uninstall"}, update : BOOLEAN, list : BOOLEAN,
                    dryRun : BOOLEAN, force : BOOLEAN, yes : BOOLEAN, answer : BOOLEAN] :
         \E chosen \in SUBSET {NpxItems[k] : k \in 1..Len(NpxItems)} :
           \E dir \in NpxDirChoices :
             npx = NpxStart(args, chosen, dir, "none", InstallCommand)
    /\ cls = Idle /\ sel = Idle /\ wt = Idle /\ rsc = Idle /\ fm = Idle /\ rapf = Idle
    /\ un = Idle /\ dps = Idle /\ ppc = Idle /\ ins = Idle

\* detectInstalledModuleNames: a module whose target or merged file exists
LooksInstalled(files, m) ==
    \E k \in 1..Len(NpxOps(m)) :
        LET op == NpxOps(m)[k]
        IN  \/ op.type \in {"copy_file", "copy_dir"} /\ Exists(files, op.target)
            \/ op.type = "merge_dir" /\ \E f \in op.files : files[f] # "absent"

InstalledNames(r) ==
    IF r.status.file THEN r.status.modules
    ELSE {m \in Modules : LooksInstalled(r.files, m)}

ModuleItems(ms) == SelectItems(NpxItems, {it \in {NpxItems[k] : k \in 1..Len(NpxItems)} :
                                             it.kind = "module" /\ it.name \in ms})

NpxDone(r, how) == [r EXCEPT !.pc = how]

\* main(): options, the work list, the confirmation and the dry-run exits
NpxMain ==
    /\ npx.pc = "main"
    /\ LET a == npx.args
           installed == InstalledNames(npx)
           chosenModules == {it.name : it \in {c \in npx.chosen : c.kind = "module"}}
           toRemove == ModuleItems(chosenModules \cap installed)
           toUpdate == ModuleItems(installed)
           picks == SelectItems(NpxItems, npx.chosen)
       IN  npx' =
             IF a.list /\ a.update THEN NpxDone(npx, "error")
             ELSE IF a.command = "uninstall"
             THEN IF toRemove = <<>> THEN NpxDone(npx, "nothing selected")
                  ELSE IF ~a.yes /\ ~a.dryRun /\ ~a.answer THEN NpxDone(npx, "cancelled")
                  ELSE [npx EXCEPT !.pc = "uninstall", !.picks = toRemove]
             ELSE IF a.update
             THEN IF toUpdate = <<>> THEN NpxDone(npx, "nothing installed")
                  ELSE IF a.dryRun THEN NpxDone(npx, "dry run")
                  ELSE [npx EXCEPT !.pc = "update", !.picks = toUpdate,
                                   !.mkdirs = @ \cup {<<>>}]
             ELSE IF a.list THEN NpxDone(npx, "listed")
             ELSE IF picks = <<>> THEN NpxDone(npx, "nothing selected")
             ELSE IF a.dryRun THEN NpxDone(npx, "dry run")
             ELSE [npx EXCEPT !.pc = "install", !.picks = picks, !.mkdirs = @ \cup {<<>>}]
    /\ UNCHANGED <<schedVars, poolVars, cls, sel, wt, rsc, fm, rapf, un, dps, ppc, ins>>

\* variant: an existing destination is always replaced
Replaces_Always(force, present) == TRUE

\* copyFile / copyDirRecursive: the destination is written unless it exists
\* and force is off
Replaces(force, present) == force \/ ~present

\* variant: install.sh is run without looking at installState
WithInstallSh_Unguarded(r) ==
    [r EXCEPT !.wrapperInstalled = TRUE, !.installShRuns = @ + 1,
              !.files[WrapperFile] = "repo"]

\* runInstallSh, through ensureWrapperInstalled or a run_command operation
WithInstallSh(r) ==
    IF r.wrapperInstalled THEN r
    ELSE IF r.fault = "install.sh"
    THEN [r EXCEPT !.installShRuns = @ + 1, !.error = "install script failed"]
    ELSE [r EXCEPT !.wrapperInstalled = TRUE, !.installShRuns = @ + 1,
                   !.files[WrapperFile] = "repo"]

\* variant: any command of the configuration is accepted
RefusesCommand_Never(command) == FALSE

\* cmd !== "bash install.sh" after trim()
RefusesCommand(command) == TrimSpace(command) # InstallCommand

\* variant: a failed operation does not end applyModule
Throws_Never(r) == FALSE

\* an operation threw: applyModule rethrows and the run ends in main().catch
Throws(r) == r.error # ""

\* one operation of applyModule
ApplyOp(r, op, force) ==
    IF r.error # "" THEN r
    ELSE IF op.type = "copy_file"
    THEN IF ~Replaces(force, r.files[op.target] # "absent") THEN r
         ELSE IF r.fault = "copy_file" THEN [r EXCEPT !.error = "copy_file failed"]
         ELSE [r EXCEPT !.files[op.target] = "repo"]
    ELSE IF op.type = "copy_dir"
    THEN IF ~Replaces(force, Exists(r.files, op.target)) THEN r
         ELSE IF r.fault = "copy_dir" THEN [r EXCEPT !.error = "copy_dir failed"]
         ELSE [r EXCEPT !.files = [f \in NpxPaths |-> IF f \in op.files THEN "repo" ELSE @[f]],
                        !.mkdirs = @ \cup {op.target}]
    ELSE IF op.type = "merge_dir"
    THEN IF r.fault = "merge_dir" THEN [r EXCEPT !.error = "merge_dir failed"]
         ELSE [r EXCEPT !.files = [f \in NpxPaths |->
                 IF f \in op.files /\ Replaces(force, r.files[f] # "absent") THEN "repo" ELSE @[f]],
                      !.mkdirs = @ \cup {<<f[1]>> : f \in op.files}]
    ELSE IF RefusesCommand(r.command) THEN [r EXCEPT !.error = "Refusing run_command"]
    ELSE WithInstallSh(r)

RECURSIVE ApplyOps(_, _, _)
ApplyOps(r, ops, force) ==
    IF ops = <<>> THEN r ELSE ApplyOps(ApplyOp(r, Head(ops), force), Tail(ops), force)

\* the files a merge_dir operation copied in this run
MergedNow(r, m, force) ==
    UNION {{f \in NpxOps(m)[k].files : Replaces(force, r.files[f] # "absent")} :
              k \in {j \in 1..Len(NpxOps(m)) : NpxOps(m)[j].type = "merge_dir"}}

\* applyModule followed by upsertModuleStatus
ApplyModule(r, m, force) ==
    LET copied == ApplyOps(r, NpxOps(m), force)
        hooked == m = "do" /\ copied.files[DoHooks] # "absent" /\ m \notin copied.hooks
        agents == m \in ModulesWithAgents /\ m \notin copied.models
    IN  IF Throws(copied) THEN copied
        ELSE
        [copied EXCEPT
           !.hooks = IF hooked THEN @ \cup {m} ELSE @,
           !.models = IF agents THEN @ \cup {m} ELSE @,
           !.status = [file |-> TRUE, modules |-> @.modules \cup {m},
                       merge |-> IF m = "bmad" THEN MergedNow(r, m, force) ELSE @.merge],
           !.writes = @ \cup {"installed_modules.json"}
                        \cup (IF hooked THEN {"settings.json"} ELSE {})
                        \cup (IF agents THEN {"models.json"} ELSE {})]

Advance(r) == [r EXCEPT !.i = @ + 1]

\* installSelected: one pick of the loop
NpxInstallPick ==
    /\ npx.pc = "install"
    /\ npx.i <= Len(npx.picks)
    /\ LET p == npx.picks[npx.i]
           force == npx.args.force
           r == IF p.kind = "wrapper" THEN WithInstallSh(npx)
                ELSE IF p.kind = "module"
                THEN ApplyModule(IF p.name \in WRAPPER_REQUIRED_MODULES
                                 THEN WithInstallSh(npx) ELSE npx, p.name, force)
                ELSE LET w == IF p.name \in WRAPPER_REQUIRED_SKILLS
                              THEN WithInstallSh(npx) ELSE npx
                     IN  ApplyOp(w, [type |-> "copy_dir", target |-> <<"skills", p.name>>,
                                     files |-> SkillFilesOf(p.name)], force)
       IN  npx' = IF Throws(r) THEN NpxDone(r, "error") ELSE Advance(r)
    /\ UNCHANGED <<schedVars, poolVars, cls, sel, wt, rsc, fm, rapf, un, dps, ppc, ins>>

\* installSelected after the loop: installDefaultConfigs
NpxInstallEnd ==
    /\ npx.pc = "install"
    /\ npx.i > Len(npx.picks)
    /\ npx' = [npx EXCEPT !.pc = "done",
                          !.files[ClaudeMd] = IF @ = "absent" THEN "repo" ELSE @]
    /\ UNCHANGED <<schedVars, poolVars, cls, sel, wt, rsc, fm, rapf, un, dps, ppc, ins>>

\* updateInstalledModules: one module of the loop, always with force
NpxUpdateModule ==
    /\ npx.pc = "update"
    /\ LET m == npx.picks[npx.i].name
           r == ApplyModule(IF m \in WRAPPER_REQUIRED_MODULES
                            THEN WithInstallSh(npx) ELSE npx, m, TRUE)
           next == Advance(r)
       IN  npx' = IF Throws(r) THEN NpxDone(r, "error")
                  ELSE IF next.i > Len(npx.picks) THEN NpxDone(next, "done") ELSE next
    /\ UNCHANGED <<schedVars, poolVars, cls, sel, wt, rsc, fm, rapf, un, dps, ppc, ins>>

\* variant: uninstallModule goes on to its bookkeeping in a dry run as well
ReturnsEarly_Never(dryRun) == FALSE

\* uninstallModule returns before unmerging hooks and deleting the status
ReturnsEarly(dryRun) == dryRun

\* the files uninstallModule removes for module m
RemovedBy(r, m) ==
    UNION {LET op == NpxOps(m)[k]
           IN  IF op.type \in {"copy_file", "copy_dir"}
               THEN {f \in NpxPaths : IsUnder(f, op.target)}
               ELSE IF op.type = "merge_dir"
               THEN IF m \in r.status.modules /\ r.status.merge # {}
                    THEN r.status.merge
                    ELSE {f \in op.files : r.files[f] = "repo"}
               ELSE {} : k \in 1..Len(NpxOps(m))}

\* uninstallModule for one module of toRemove
NpxUninstallModule ==
    /\ npx.pc = "uninstall"
    /\ LET m == npx.picks[npx.i].name
           dryRun == npx.args.dryRun
           gone == RemovedBy(npx, m)
           removed == IF dryRun THEN npx
                      ELSE [npx EXCEPT !.files = [f \in NpxPaths |->
                                                    IF f \in gone THEN "absent" ELSE @[f]]]
           unhook == m \in npx.hooks
           unlist == npx.status.file /\ m \in npx.status.modules
           booked == IF ReturnsEarly(dryRun) THEN removed
                     ELSE [removed EXCEPT
                             !.hooks = @ \ {m},
                             !.status = IF unlist
                                        THEN [@ EXCEPT !.modules = @ \ {m},
                                                       !.merge = IF m = "bmad" THEN {} ELSE @]
                                        ELSE @,
                             !.writes = @ \cup (IF unhook THEN {"settings.json"} ELSE {})
                                          \cup (IF unlist THEN {"installed_modules.json"} ELSE {})]
           next == Advance(booked)
       IN  npx' = IF next.i > Len(npx.picks) THEN NpxDone(next, "done") ELSE next
    /\ UNCHANGED <<schedVars, poolVars, cls, sel, wt, rsc, fm, rapf, un, dps, ppc, ins>>

NpxNext ==
    \/ NpxMain
    \/ NpxInstallPick
    \/ NpxInstallEnd
    \/ NpxUpdateModule
    \/ NpxUninstallModule

NpxSpec == NpxInit /\ [][NpxNext]_vars

\* C23: with --dry-run, install, update and uninstall leave the install
\* directory as it was: no file is copied or removed, no directory made,
\* install.sh is not run, and settings.json hooks, installed_modules.json
\* and models.json are not written.
C23_DryRunChangesNothing ==
    [][(npx.pc # "idle" /\ npx.args.dryRun) =>
          /\ npx'.files = npx.files
          /\ npx'.mkdirs = npx.mkdirs
          /\ npx'.installShRuns = npx.installShRuns
          /\ npx'.hooks = npx.hooks
          /\ npx'.status = npx.status
          /\ npx'.models = npx.models
          /\ npx'.writes = {}]_vars

C23_Witness ==
    /\ npx.pc = "done"
    /\ npx.args.command = "uninstall"
    /\ npx.args.dryRun
    /\ Len(npx.picks) = 3
    /\ npx.files = FreshDir
    /\ npx.status.modules = Modules
    /\ npx.hooks = {"do"}

\* C24: an install without --force never overwrites or modifies a file that
\* is already in the install directory through copy_file, copy_dir or
\* merge_dir (the wrapper binary is written by install.sh, not by these
\* operations); with --force existing files are replaced.
C24_NoOverwriteWithoutForce ==
    [][(npx.pc = "install" /\ ~npx.args.force) =>
          \A f \in NpxPaths \ {WrapperFile} :
              npx.files[f] # "absent" => npx'.files[f] = npx.files[f]]_vars

C24_Witness ==
    /\ npx.pc = "done"
    /\ npx.args.command = "install" /\ ~npx.args.update /\ ~npx.args.force
    /\ Len(npx.picks) = Len(NpxItems)
    /\ npx.files[DoSkill] = "user" /\ npx.files[DoHooks] = "absent"
    /\ npx.files[BmadAgent] = "user" /\ npx.files[BmadCmd] = "repo"
    /\ npx.files[OmoDoc] = "user"
    /\ npx.files[DevSkill] = "user" /\ npx.files[BrowserSkill] = "repo"

\* the requested names the loop never reached
Unreached == {k \in 1..Len(rsc.skills) : k >= rsc.i}

\* a name that resolves to a non-empty SKILL.md
Installed(n) == n \in {<<"a">>, <<"B", "9">>}

\* C25: every requested skill that is omitted because the budget has run out
\* produces a warning, in particular the skills after one that was truncated
\* to fill the budget exactly.
C25_BudgetOmissionWarned ==
    (rsc.pc = "done" /\ rsc.i > 1) =>
        \A k \in Unreached :
            Installed(TrimSpace(rsc.skills[k])) =>
                \E w \in 1..Len(rsc.warnings) :
                    /\ rsc.warnings[w].name = TrimSpace(rsc.skills[k])
                    /\ rsc.warnings[w].kind = "insufficient budget for tags"

\* the block of C26 for a name and a body, written out
WrittenBlock(name, body) ==
    <<"<", "s", "k", "i", "l", "l", " ", "n", "a", "m", "e", "=", "\"">> \o name
    \o <<"\"", ">", "\n">> \o body \o <<"\n", "<", "/", "s", "k", "i", "l", "l", ">">>

\* the body the block at position k was cut from
FullBody(n) ==
    stripYAMLFrontmatter(TrimSpace(
        IF CodexCopy(n) \in DOMAIN SkillFiles THEN SkillFiles[CodexCopy(n)]
        ELSE SkillFiles[ClaudeCopy(n)]))

RECURSIVE BlankLineJoined(_)
BlankLineJoined(blocks) ==
    IF blocks = <<>> THEN <<>>
    ELSE IF Len(blocks) = 1 THEN blocks[1]
    ELSE blocks[1] \o <<"\n", "\n">> \o BlankLineJoined(Tail(blocks))

\* C26: the returned blocks follow the order of the requested names (a
\* subsequence of the request, names taken without surrounding whitespace),
\* each block is <skill name="NAME"> newline BODY newline </skill>, blocks
\* are separated by exactly one blank line, and no block follows a truncated
\* one.
C26_BlocksInOrder ==
    rsc.pc = "done" =>
        LET n == Len(rsc.emitted)
            blocks == [k \in 1..n |->
                          WrittenBlock(rsc.emitted[k].name,
                                       SliceTo(FullBody(rsc.emitted[k].name),
                                               rsc.emitted[k].bodyLen))]
        IN  /\ \E g \in [1..n -> 1..Len(rsc.skills)] :
                  /\ \A k \in 1..n : TrimSpace(rsc.skills[g[k]]) = rsc.emitted[k].name
                  /\ \A k \in 1..n : Installed(rsc.emitted[k].name)
                  /\ \A j, k \in 1..n : j < k => g[j] < g[k]
            /\ rsc.result = BlankLineJoined(blocks)
            /\ \A k \in 1..n : rsc.emitted[k].truncated => k = n

C26_Witness ==
    /\ rsc.pc = "done"
    /\ rsc.skills = << <<"B", "9">>, <<".", ".">>, <<"a">> >>
    /\ Len(rsc.emitted) = 2
    /\ rsc.emitted[1].name = <<"B", "9">>
    /\ rsc.emitted[2].name = <<"a">>
    /\ rsc.emitted[2].truncated
    /\ Len(rsc.result) = rsc.arg + 2

\* what C27 describes: a first line that is exactly ---, closed by the first
\* later line that is exactly ---; the text after that line, trimmed
FrontMatterRemoved(s0) ==
    LET s == ReplaceAll(s0, CRLF, NL)
        opens == HasPrefix(s, Dashes) /\ (Len(s) = 3 \/ s[4] = "\n")
        closers == {p \in 4..(Len(s) - 3) :
                       /\ s[p] = "\n"
                       /\ SubSeq(s, p + 1, p + 3) = Dashes
                       /\ (p + 3 = Len(s) \/ s[p + 4] = "\n")}
    IN  IF opens /\ closers # {}
        THEN TrimSpace(SubSeq(s, SetMin(closers) + 4, Len(s)))
        ELSE s

\* C27: stripYAMLFrontmatter removes only a leading block that opens with a
\* --- line and is closed by a later --- line and returns the trimmed text
\* after the closing line; any other input is returned unchanged apart from
\* CRLF becoming LF.
C27_StripsFrontMatterOnly ==
    fm.pc \in {"once", "twice"} => fm.once = FrontMatterRemoved(fm.s)

\* ---------------------------------------------------------------------
\* DetectProjectSkills: fingerprint files of the working directory are
\* mapped to the skills installed under the home directory
\* ---------------------------------------------------------------------
MaxFingerprints == 2
MaxInstalled == 2

techSkillMap ==
    << [Files |-> <<"go.mod", "go.sum">>, Skills |-> <<"golang-base-practices">>],
       [Files |-> <<"Cargo.toml">>, Skills |-> <<"rust-best-practices">>],
       [Files |-> <<"pyproject.toml", "setup.py", "requirements.txt", "Pipfile">>,
        Skills |-> <<"python-best-practices">>],
       [Files |-> <<"package.json">>,
        Skills |-> <<"vercel-react-best-practices", "frontend-design">>],
       [Files |-> <<"vue.config.js", "vite.config.ts", "nuxt.config.ts">>,
        Skills |-> <<"vue-web-app">>] >>

SeqRange(q) == {q[k] : k \in DOMAIN q}
FingerprintFiles == UNION {SeqRange(techSkillMap[e].Files) : e \in DOMAIN techSkillMap}
MappedSkills == UNION {SeqRange(techSkillMap[e].Skills) : e \in DOMAIN techSkillMap}

\* findSkillFile against a given set of installed SKILL.md paths
findSkillFileAt(installed, skill) ==
    IF SkillPath(SkillRoots[1], skill) \in installed THEN SkillPath(SkillRoots[1], skill)
    ELSE IF SkillPath(SkillRoots[2], skill) \in installed THEN SkillPath(SkillRoots[2], skill)
    ELSE NoPath

\* os.Stat(filepath.Join(workDir, f)) succeeds
StatOK_Always(dirExists, files, f) == TRUE

StatOK(dirExists, files, f) == dirExists /\ f \in files

\* the inner loop over entry.Skills: skip what was seen, keep what is installed
RECURSIVE AppendInstalled(_, _, _, _)
AppendInstalled(skills, installed, detected, seen) ==
    IF skills = <<>> THEN [detected |-> detected, seen |-> seen]
    ELSE IF Head(skills) \in seen
         THEN AppendInstalled(Tail(skills), installed, detected, seen)
    ELSE IF findSkillFileAt(installed, Head(skills)) # NoPath
         THEN AppendInstalled(Tail(skills), installed,
                              Append(detected, Head(skills)), seen \cup {Head(skills)})
    ELSE AppendInstalled(Tail(skills), installed, detected, seen)

WorkDirFiles == FingerprintFiles \cup {"README.md"}
WorkDirChoices == {S \in SUBSET WorkDirFiles : Cardinality(S) <= MaxFingerprints}
InstalledPaths == {SkillPath(SkillRoots[r], k) : r \in 1..2, k \in MappedSkills}
InstalledChoices ==
    {S \in SUBSET InstalledPaths : Cardinality({p[3] : p \in S}) <= MaxInstalled}

DpsInit ==
    /\ SchedIdle
    /\ \E homeOK \in BOOLEAN, dirExists \in BOOLEAN :
       \E files \in (IF dirExists THEN WorkDirChoices ELSE {{}}) :
       \E installed \in InstalledChoices :
          dps = [pc |-> "call", homeOK |-> homeOK, dirExists |-> dirExists,
                 files |-> files, installed |-> installed,
                 e |-> 0, detected |-> <<>>, seen |-> {}, result |-> <<>>]
    /\ cls = Idle /\ sel = Idle /\ wt = Idle /\ rsc = Idle /\ fm = Idle /\ rapf = Idle
    /\ un = Idle /\ npx = Idle /\ ppc = Idle /\ ins = Idle

\* os.UserHomeDir: an error returns nil at once
DpsEnter ==
    /\ dps.pc = "call"
    /\ dps' = IF dps.homeOK THEN [dps EXCEPT !.pc = "loop", !.e = 1]
              ELSE [dps EXCEPT !.pc = "done", !.result = <<>>]
    /\ UNCHANGED <<schedVars, poolVars, cls, sel, wt, rsc, fm, rapf, un, npx, ppc, ins>>

\* one entry of techSkillMap: the first fingerprint file found adds the
\* entry's installed skills and ends the scan of that entry
DpsEntry ==
    /\ dps.pc = "loop"
    /\ dps.e <= Len(techSkillMap)
    /\ LET entry == techSkillMap[dps.e]
           hit == \E k \in DOMAIN entry.Files :
                     StatOK(dps.dirExists, dps.files, entry.Files[k])
           r == AppendInstalled(entry.Skills, dps.installed, dps.detected, dps.seen)
       IN  dps' = IF hit
                  THEN [dps EXCEPT !.e = @ + 1, !.detected = r.detected, !.seen = r.seen]
                  ELSE [dps EXCEPT !.e = @ + 1]
    /\ UNCHANGED <<schedVars, poolVars, cls, sel, wt, rsc, fm, rapf, un, npx, ppc, ins>>

DpsReturn ==
    /\ dps.pc = "loop"
    /\ dps.e > Len(techSkillMap)
    /\ dps' = [dps EXCEPT !.pc = "done", !.result = dps.detected]
    /\ UNCHANGED <<schedVars, poolVars, cls, sel, wt, rsc, fm, rapf, un, npx, ppc, ins>>

DpsNext == DpsEnter \/ DpsEntry \/ DpsReturn
DpsSpec == DpsInit /\ [][DpsNext]_vars

InstalledSomewhere(installed, k) == CodexCopy(k) \in installed \/ ClaudeCopy(k) \in installed
FingerprintSeen(k) ==
    \E e \in DOMAIN techSkillMap :
        /\ k \in SeqRange(techSkillMap[e].Skills)
        /\ dps.dirExists
        /\ SeqRange(techSkillMap[e].Files) \cap dps.files # {}

\* C28: DetectProjectSkills returns a list without duplicates holding only
\* skills whose fingerprint file exists in the working directory and whose
\* SKILL.md is installed under the Codex or the Claude skills directory; the
\* list is empty when the directory has no fingerprint file or does not exist.
C28_DetectedAndInstalledOnly ==
    dps.pc = "done" =>
        /\ \A a, b \in DOMAIN dps.result : dps.result[a] = dps.result[b] => a = b
        /\ \A a \in DOMAIN dps.result :
              /\ FingerprintSeen(dps.result[a])
              /\ InstalledSomewhere(dps.installed, dps.result[a])
        /\ (~dps.dirExists \/ dps.files \cap FingerprintFiles = {}) => dps.result = <<>>

C28_Witness ==
    /\ dps.pc = "done"
    /\ dps.result = <<"golang-base-practices", "frontend-design">>
    /\ CodexCopy("frontend-design") \notin dps.installed
    /\ "README.md" \notin dps.files

\* ---------------------------------------------------------------------
\* ParseParallelConfig: the header region of one task block, with its id
\* and its skills line
\* ---------------------------------------------------------------------
MaxValueLen == 4

HeaderChars == {"a", "b", ",", " "}
HeaderValues == UNION {[1..n -> HeaderChars] : n \in 0..MaxValueLen}
IdChoices == {<<>>, <<"t", "1">>}

\* strings.Split(s, ",")
RECURSIVE Split(_)
Split(s) ==
    IF Index(s, <<",">>) < 0 THEN <<s>>
    ELSE <<SliceTo(s, Index(s, <<",">>))>> \o Split(SliceFrom(s, Index(s, <<",">>) + 1))

\* one item of a comma-separated header value
ListItem_Untrimmed(field) == field

ListItem(field) == TrimSpace(field)

\* the items of a comma-separated value, empty ones skipped
RECURSIVE CommaList(_)
CommaList(fields) ==
    IF fields = <<>> THEN <<>>
    ELSE IF ListItem(Head(fields)) = <<>> THEN CommaList(Tail(fields))
    ELSE <<ListItem(Head(fields))>> \o CommaList(Tail(fields))

PpcInit ==
    /\ SchedIdle
    /\ \E id \in IdChoices, hasSkills \in BOOLEAN :
       \E value \in (IF hasSkills THEN HeaderValues ELSE {<<>>}) :
          ppc = [pc |-> "id", id |-> id, hasSkills |-> hasSkills, value |-> value,
                 task |-> [ID |-> <<>>, Skills |-> <<>>], err |-> ""]
    /\ cls = Idle /\ sel = Idle /\ wt = Idle /\ rsc = Idle /\ fm = Idle /\ rapf = Idle
    /\ un = Idle /\ npx = Idle /\ dps = Idle /\ ins = Idle

\* the id line
PpcIdLine ==
    /\ ppc.pc = "id"
    /\ ppc' = [ppc EXCEPT !.pc = "skills", !.task.ID = TrimSpace(ppc.id)]
    /\ UNCHANGED <<schedVars, poolVars, cls, sel, wt, rsc, fm, rapf, un, npx, dps, ins>>

\* the skills line, when the block has one
PpcSkillsLine ==
    /\ ppc.pc = "skills"
    /\ ppc.hasSkills
    /\ ppc' = [ppc EXCEPT !.pc = "content",
                          !.task.Skills = CommaList(Split(TrimSpace(ppc.value)))]
    /\ UNCHANGED <<schedVars, poolVars, cls, sel, wt, rsc, fm, rapf, un, npx, dps, ins>>

PpcNoSkillsLine ==
    /\ ppc.pc = "skills"
    /\ ~ppc.hasSkills
    /\ ppc' = [ppc EXCEPT !.pc = "content"]
    /\ UNCHANGED <<schedVars, poolVars, cls, sel, wt, rsc, fm, rapf, un, npx, dps, ins>>

\* end of the block: a task without an id is an error
PpcEndBlock ==
    /\ ppc.pc = "content"
    /\ ppc' = [ppc EXCEPT !.pc = "done",
                          !.err = IF ppc.task.ID = <<>> THEN "missing id" ELSE ""]
    /\ UNCHANGED <<schedVars, poolVars, cls, sel, wt, rsc, fm, rapf, un, npx, dps, ins>>

PpcNext == PpcIdLine \/ PpcSkillsLine \/ PpcNoSkillsLine \/ PpcEndBlock
PpcSpec == PpcInit /\ [][PpcNext]_vars

\* the text between one comma (or the start) and the next comma (or the end)
FieldAfter(v, b) ==
    SubSeq(v, b + 1, SetMin({p \in (b + 1)..(Len(v) + 1) : p = Len(v) + 1 \/ v[p] = ","}) - 1)
FieldStarts(v) == {0} \cup {p \in 1..Len(v) : v[p] = ","}
NoOuterSpace(n) == n # <<>> /\ ~IsSpace(n[1]) /\ ~IsSpace(n[Len(n)])
NamedStarts(v) == {b \in FieldStarts(v) : \E k \in DOMAIN FieldAfter(v, b) : ~IsSpace(FieldAfter(v, b)[k])}

\* C29: ParseParallelConfig turns a task's skills header into the list of its
\* comma-separated names, surrounding whitespace removed and order kept; a
\* block with no skills header or an empty skills value parses successfully
\* with an empty skills list.
C29_SkillsHeaderParsed ==
    (ppc.pc = "done" /\ ppc.id # <<>>) =>
        /\ ppc.err = ""
        /\ Len(ppc.task.Skills) = Cardinality(NamedStarts(ppc.value))
        /\ \A k \in DOMAIN ppc.task.Skills :
              LET f == FieldAfter(ppc.value, AscSeq(NamedStarts(ppc.value))[k])
                  n == ppc.task.Skills[k]
              IN  /\ NoOuterSpace(n)
                  /\ \E a, z \in 0..Len(f) :
                        /\ f = SubSeq(f, 1, a) \o n \o SubSeq(f, Len(f) - z + 1, Len(f))
                        /\ \A j \in 1..a : IsSpace(f[j])
                        /\ \A j \in (Len(f) - z + 1)..Len(f) : IsSpace(f[j])
        /\ (~ppc.hasSkills \/ \A k \in DOMAIN ppc.value : IsSpace(ppc.value[k]))
              => ppc.task.Skills = <<>>

C29_Witness ==
    /\ ppc.pc = "done"
    /\ ppc.err = ""
    /\ ppc.value = <<"a", ",", " ", "b">>
    /\ ppc.task.Skills = << <<"a">>, <<"b">> >>

\* ---------------------------------------------------------------------
\* install.sh: repeated runs with the same INSTALL_DIR and HOME; a shell
\* config file is a sequence of lines, a line a sequence of pieces
\* ---------------------------------------------------------------------
MaxRuns == 3

BIN_DIR == "/home/u/.codex/bin"
EXPORT_LINE == <<"export PATH=\"", BIN_DIR, ":$PATH\"">>
AddedByLine == <<"# Added by myclaude installer">>
ConfigFiles == {".bashrc", ".profile", ".zshrc", ".zprofile"}

\* RC_FILE and PROFILE_FILE for the user's shell, in loop order
FILES_TO_UPDATE(userShell) ==
    IF userShell = "zsh" THEN <<".zshrc", ".zprofile">> ELSE <<".bashrc", ".profile">>

NoFile == [exists |-> FALSE, lines |-> <<>>]
ConfigChoices ==
    {NoFile} \cup
    {[exists |-> TRUE, lines |-> l] :
        l \in {<<>>,
               << <<"alias ll=ls">> >>,
               << <<"export PATH=\"", "/opt/old/bin", ":$PATH\"">> >>,
               << <<"# ">> \o EXPORT_LINE >>,
               << <<"alias ll=ls">>, EXPORT_LINE >>}}

InsInit ==
    /\ SchedIdle
    /\ \E files \in [ConfigFiles -> ConfigChoices] :
          ins = [pc |-> "ready", runs |-> 0, files |-> files,
                 appended |-> [f \in ConfigFiles |-> 0],
                 wrapper |-> FALSE, exit |-> 0]
    /\ cls = Idle /\ sel = Idle /\ wt = Idle /\ rsc = Idle /\ fm = Idle /\ rapf = Idle
    /\ un = Idle /\ npx = Idle /\ dps = Idle /\ ppc = Idle

\* [ -f "$FILE" ] && grep -qF "${EXPORT_LINE}" "$FILE": some line holds the text
GrepFixed_Never(file) == FALSE

GrepFixed(file) ==
    file.exists /\ \E k \in DOMAIN file.lines : Index(file.lines[k], EXPORT_LINE) >= 0

\* the three echo >> "$FILE" of the else branch
AppendExport(file) ==
    [exists |-> TRUE, lines |-> file.lines \o <<<<>>, AddedByLine, EXPORT_LINE>>]

RECURSIVE UpdateFiles(_, _, _)
UpdateFiles(names, files, appended) ==
    IF names = <<>> THEN [files |-> files, appended |-> appended]
    ELSE IF GrepFixed(files[Head(names)])
         THEN UpdateFiles(Tail(names), files, appended)
    ELSE UpdateFiles(Tail(names),
                     [files EXCEPT ![Head(names)] = AppendExport(@)],
                     [appended EXCEPT ![Head(names)] = @ + 1])

\* one run of the script
InstallRun ==
    /\ ins.pc = "ready"
    /\ ins.runs < MaxRuns
    /\ \E archOK \in BOOLEAN, curlOK \in BOOLEAN, versionOK \in BOOLEAN,
          inPath \in BOOLEAN, userShell \in {"zsh", "bash"} :
          LET r == UpdateFiles(FILES_TO_UPDATE(userShell), ins.files, ins.appended)
          IN  ins' =
                IF ~archOK \/ ~curlOK
                THEN [ins EXCEPT !.runs = @ + 1, !.exit = 1]
                ELSE IF ~versionOK
                THEN [ins EXCEPT !.runs = @ + 1, !.exit = 1, !.wrapper = TRUE]
                ELSE IF inPath
                THEN [ins EXCEPT !.runs = @ + 1, !.exit = 0, !.wrapper = TRUE]
                ELSE [ins EXCEPT !.runs = @ + 1, !.exit = 0, !.wrapper = TRUE,
                                 !.files = r.files, !.appended = r.appended]
    /\ UNCHANGED <<schedVars, poolVars, cls, sel, wt, rsc, fm, rapf, un, npx, dps, ppc>>

InsNext == InstallRun
InsSpec == InsInit /\ [][InsNext]_vars

Copies(file) == Cardinality({k \in DOMAIN file.lines : file.lines[k] = EXPORT_LINE})

\* C30: however often install.sh runs with the same INSTALL_DIR and HOME, each
\* shell config file it updates holds at most one copy of the export PATH
\* line: a run that finds the line in a file appends nothing to that file.
C30_OneExportLine ==
    [][\A f \in ConfigFiles :
          /\ Copies(ins.files[f]) >= 1 => ins'.files[f] = ins.files[f]
          /\ Copies(ins.files[f]) = 0 => Copies(ins'.files[f]) <= 1]_vars

C30_Witness ==
    /\ ins.pc = "ready"
    /\ ins.runs = 3
    /\ ins.appended[".bashrc"] = 1
    /\ ins.appended[".zprofile"] = 1
    /\ Copies(ins.files[".bashrc"]) = 1
    /\ Len(ins.files[".bashrc"].lines) = 4

\* ---------------------------------------------------------------------
\* install.sh followed by uninstall.sh on the same HOME: the shell config
\* files of the install.sh model are handed to uninstall.sh's cleanup
\* ---------------------------------------------------------------------

\* grep -v "# Added by myclaude installer" | grep -v "export PATH=...": the
\* lines that hold neither text
RECURSIVE DropInstallerLines(_)
DropInstallerLines(lines) ==
    IF lines = <<>> THEN <<>>
    ELSE IF Index(Head(lines), AddedByLine) >= 0 \/ Index(Head(lines), EXPORT_LINE) >= 0
         THEN DropInstallerLines(Tail(lines))
    ELSE <<Head(lines)>> \o DropInstallerLines(Tail(lines))

\* [ -f "$rc_file" ] and grep -q finds the marker comment
HasMarker(file) ==
    file.exists /\ \E k \in DOMAIN file.lines : Index(file.lines[k], AddedByLine) >= 0

\* the second grep -v selects no line and ends the script (set -e) before mv
CleanupStops(file) == HasMarker(file) /\ DropInstallerLines(file.lines) = <<>>

\* the files uninstall.sh hands to cleanup_shell_config, in call order
CleanedFiles == <<".bashrc", ".zshrc">>

cleanup_shell_config(file) ==
    IF HasMarker(file) /\ ~CleanupStops(file)
    THEN [file EXCEPT !.lines = DropInstallerLines(@)]
    ELSE file

RECURSIVE CleanupAll(_, _)
CleanupAll(names, files) ==
    IF names = <<>> THEN [files |-> files, stopped |-> FALSE]
    ELSE IF CleanupStops(files[Head(names)]) THEN [files |-> files, stopped |-> TRUE]
    ELSE CleanupAll(Tail(names),
                    [files EXCEPT ![Head(names)] = cleanup_shell_config(@)])

\* one run of uninstall.sh after the install.sh runs
UninstallRun ==
    /\ ins.pc = "ready"
    /\ ins.runs > 0
    /\ \E SELECTED \in BOOLEAN, PURGE \in BOOLEAN, YES \in BOOLEAN,
          DRY_RUN \in BOOLEAN, LIST_ONLY \in BOOLEAN, response \in BOOLEAN :
          LET c == CleanupAll(CleanedFiles, ins.files)
          IN  ins' =
                IF ~ins.wrapper THEN [ins EXCEPT !.pc = "nothing to uninstall"]
                ELSE IF LIST_ONLY THEN [ins EXCEPT !.pc = "listed"]
                ELSE IF ~SELECTED /\ ~PURGE
                THEN [ins EXCEPT !.pc = "no modules"]
                ELSE IF ~YES /\ ~DRY_RUN /\ ~response THEN [ins EXCEPT !.pc = "aborted"]
                ELSE IF DRY_RUN THEN [ins EXCEPT !.pc = "dry run"]
                ELSE [ins EXCEPT
                        !.pc = IF c.stopped THEN "stopped in cleanup" ELSE "complete",
                        !.wrapper = FALSE, !.files = c.files]
    /\ UNCHANGED <<schedVars, poolVars, cls, sel, wt, rsc, fm, rapf, un, npx, dps, ppc>>

InsUnNext == InstallRun \/ UninstallRun
InsUnSpec == InsInit /\ [][InsUnNext]_vars

HoldsInstallerLine(file) ==
    \E k \in DOMAIN file.lines : file.lines[k] \in {AddedByLine, EXPORT_LINE}

\* C31: after install.sh followed by uninstall.sh with the same INSTALL_DIR,
\* HOME and SHELL, no shell config file install.sh appended to still holds the
\* installer's marker comment or its export PATH line.
C31_InstallerLinesRemoved ==
    ins.pc = "complete" =>
        \A f \in ConfigFiles : ins.appended[f] > 0 => ~HoldsInstallerLine(ins.files[f])

\* C32: in one run of the npx installer, install or update, install.sh is
\* executed at most once, whatever the selected items that need the wrapper.
C32_InstallShAtMostOnce == npx.pc # "idle" => npx.installShRuns <= 1

C32_Witness ==
    /\ npx.pc = "done"
    /\ npx.args.command = "install"
    /\ ~npx.args.update
    /\ Len(npx.picks) = Len(NpxItems)
    /\ npx.installShRuns = 1

\* ---------------------------------------------------------------------
\* settings.json of the npx installer: mergeHooksToSettings and
\* unmergeHooksFromSettings. A hook entry is its __module__ tag ("" when it
\* has none) and the rest of the object; settings.hooks maps a hook type to
\* its array, or to no key at all.
\* ---------------------------------------------------------------------
MaxHookOps == 4

HookTypes == {"PreToolUse", "Stop"}
HookModules == {"do", "omo"}
NoKey == [present |-> FALSE, entries |-> <<>>]
HookEntry(tag, body) == [module |-> tag, body |-> body]

\* hooks.json of each module: the entries of each hook type it names
ModuleHooks(m) ==
    IF m = "do"
    THEN [PreToolUse |-> <<"a", "b", "a">>, Stop |-> <<"a">>]
    ELSE [PreToolUse |-> <<"a">>, Stop |-> <<>>]

\* hooksEqual: two entries compared without their __module__ keys
hooksEqual(h1, h2) == h1.body = h2.body

\* the inner loop of mergeHooksToSettings: is the tagged copy already there
HookExists_Never(list, entryCopy) == FALSE

HookExists(list, entryCopy) ==
    \E k \in DOMAIN list :
        list[k].module = entryCopy.module /\ hooksEqual(list[k], entryCopy)

RECURSIVE PushMissing(_, _, _)
PushMissing(list, bodies, m) ==
    IF bodies = <<>> THEN list
    ELSE PushMissing(IF HookExists(list, HookEntry(m, Head(bodies))) THEN list
                     ELSE Append(list, HookEntry(m, Head(bodies))),
                     Tail(bodies), m)

mergeHooksToSettings(m, hooks) ==
    LET merged == [t \in HookTypes |->
                     [present |-> TRUE,
                      entries |-> PushMissing(hooks[t].entries, ModuleHooks(m)[t], m)]]
        modified == \E t \in HookTypes : merged[t].entries # hooks[t].entries
    IN  [hooks |-> IF modified THEN merged ELSE hooks, modified |-> modified]

\* variant: the filter looks at no tag
TaggedWith_Any(e, m) == e.module # ""

\* e && e.__module__ === moduleName
TaggedWith(e, m) == e.module = m

RECURSIVE KeepOthers(_, _)
KeepOthers(list, m) ==
    IF list = <<>> THEN <<>>
    ELSE IF TaggedWith(Head(list), m) THEN KeepOthers(Tail(list), m)
    ELSE <<Head(list)>> \o KeepOthers(Tail(list), m)

unmergeHooksFromSettings(m, hooks) ==
    LET filtered == [t \in HookTypes |->
                       IF ~hooks[t].present THEN NoKey
                       ELSE IF KeepOthers(hooks[t].entries, m) = <<>> THEN NoKey
                       ELSE [present |-> TRUE, entries |-> KeepOthers(hooks[t].entries, m)]]
        modified == filtered # hooks
    IN  [hooks |-> filtered, modified |-> modified]

HookListChoices ==
    {NoKey,
     [present |-> TRUE, entries |-> <<>>],
     [present |-> TRUE, entries |-> <<HookEntry("", "a")>>],
     [present |-> TRUE, entries |-> <<HookEntry("", "u"), HookEntry("bmad", "a")>>]}

HookInit ==
    /\ SchedIdle
    /\ \E hooks \in [HookTypes -> HookListChoices] :
          npx = [pc |-> "hooks", hooks |-> hooks, calls |-> 0, saves |-> 0,
                 last |-> [op |-> "none", module |-> "", returned |-> FALSE,
                           saved |-> FALSE, before |-> hooks]]
    /\ cls = Idle /\ sel = Idle /\ wt = Idle /\ rsc = Idle /\ fm = Idle /\ rapf = Idle
    /\ un = Idle /\ dps = Idle /\ ppc = Idle /\ ins = Idle

HookMerge ==
    /\ npx.pc = "hooks"
    /\ npx.calls < MaxHookOps
    /\ \E m \in HookModules :
          LET r == mergeHooksToSettings(m, npx.hooks)
          IN  npx' = [npx EXCEPT
                        !.hooks = r.hooks, !.calls = @ + 1,
                        !.saves = IF r.modified THEN @ + 1 ELSE @,
                        !.last = [op |-> "merge", module |-> m, returned |-> r.modified,
                                  saved |-> r.modified, before |-> npx.hooks]]
    /\ UNCHANGED <<schedVars, poolVars, cls, sel, wt, rsc, fm, rapf, un, dps, ppc, ins>>

HookUnmerge ==
    /\ npx.pc = "hooks"
    /\ npx.calls < MaxHookOps
    /\ \E m \in HookModules :
          LET r == unmergeHooksFromSettings(m, npx.hooks)
          IN  npx' = [npx EXCEPT
                        !.hooks = r.hooks, !.calls = @ + 1,
                        !.saves = IF r.modified THEN @ + 1 ELSE @,
                        !.last = [op |-> "unmerge", module |-> m, returned |-> r.modified,
                                  saved |-> r.modified, before |-> npx.hooks]]
    /\ UNCHANGED <<schedVars, poolVars, cls, sel, wt, rsc, fm, rapf, un, dps, ppc, ins>>

HookNext == HookMerge \/ HookUnmerge
HookSpec == HookInit /\ [][HookNext]_vars

\* how often module m's entry with the given body occurs in a list
TaggedCount(list, m, body) ==
    Cardinality({k \in DOMAIN list : list[k] = HookEntry(m, body)})
MergedBefore(m) ==
    \A t \in HookTypes : \A k \in DOMAIN ModuleHooks(m)[t] :
        TaggedCount(npx.last.before[t].entries, m, ModuleHooks(m)[t][k]) >= 1

\* C33: mergeHooksToSettings called again with the same module and hooks
\* configuration adds no entry, returns false and does not rewrite
\* settings.json; each hook entry of a module occurs exactly once per type.
C33_MergeIdempotent ==
    npx.pc = "hooks" =>
        /\ (npx.last.op = "merge" /\ MergedBefore(npx.last.module)) =>
              /\ npx.hooks = npx.last.before
              /\ ~npx.last.returned
              /\ ~npx.last.saved
        /\ \A m \in HookModules : \A t \in HookTypes : \A body \in {"a", "b", "u"} :
              TaggedCount(npx.hooks[t].entries, m, body) <= 1
        /\ npx.last.op = "merge" =>
              \A t \in HookTypes : \A k \in DOMAIN ModuleHooks(npx.last.module)[t] :
                 TaggedCount(npx.hooks[t].entries, npx.last.module,
                             ModuleHooks(npx.last.module)[t][k]) = 1

C33_Witness ==
    /\ npx.pc = "hooks"
    /\ npx.last.op = "merge"
    /\ npx.last.module = "do"
    /\ MergedBefore("do")
    /\ npx.saves = 2
    /\ npx.calls = 4
    /\ Len(npx.hooks["PreToolUse"].entries) = 5

\* the entries of a list that are not tagged m, in order
RECURSIVE NotTagged(_, _)
NotTagged(list, m) ==
    IF list = <<>> THEN <<>>
    ELSE (IF Head(list).module = m THEN <<>> ELSE <<Head(list)>>) \o NotTagged(Tail(list), m)

\* C34: unmergeHooksFromSettings(M) removes every entry tagged M and no other:
\* the entries of other modules and the untagged ones stay, in their order,
\* for every sequence of merges and unmerges of several modules.
C34_UnmergeRemovesOnlyOwn ==
    (npx.pc = "hooks" /\ npx.last.op = "unmerge") =>
        \A t \in HookTypes :
            npx.hooks[t].entries = NotTagged(npx.last.before[t].entries, npx.last.module)

C34_Witness ==
    /\ npx.pc = "hooks"
    /\ npx.last.op = "unmerge"
    /\ npx.last.module = "do"
    /\ npx.last.returned
    /\ Len(npx.last.before["PreToolUse"].entries) = 5
    /\ npx.hooks["PreToolUse"].entries =
          <<HookEntry("", "u"), HookEntry("bmad", "a"), HookEntry("omo", "a")>>

\* ---------------------------------------------------------------------
\* ~/.codeagent/models.json: mergeModuleAgentsToModels. The value of an
\* agent entry is missing, a plain object (with or without a __module__
\* key), or something that is not a plain object (an array, a string).
\* ---------------------------------------------------------------------
MaxAgentOps == 3

AgentNames == {"develop", "review", "mine"}
Missing == [kind |-> "missing", tagged |-> FALSE, module |-> "", cfg |-> ""]
AgentObject(cfg) == [kind |-> "object", tagged |-> FALSE, module |-> "", cfg |-> cfg]
TaggedAgent(m, cfg) == [kind |-> "object", tagged |-> TRUE, module |-> m, cfg |-> cfg]
AgentArray == [kind |-> "array", tagged |-> FALSE, module |-> "", cfg |-> ""]
AgentString == [kind |-> "string", tagged |-> FALSE, module |-> "", cfg |-> ""]

\* config.json: the agents of each module, "" for an agent it does not define
ModuleAgents(m) ==
    IF m = "omo" THEN [develop |-> "omo-develop", review |-> "omo-review", mine |-> ""]
    ELSE [develop |-> "do-develop", review |-> "", mine |-> ""]

isPlainObject(x) == x.kind = "object"

\* variant: every existing entry may be overwritten
canOverwrite_Always(existing) == TRUE

\* !isPlainObject(existing) || hasOwnProperty(existing, "__module__")
canOverwrite(existing) == ~isPlainObject(existing) \/ existing.tagged

mergeModuleAgentsToModels(m, agents) ==
    LET merged == [a \in AgentNames |->
                     IF ModuleAgents(m)[a] # "" /\ canOverwrite(agents[a])
                     THEN TaggedAgent(m, ModuleAgents(m)[a])
                     ELSE agents[a]]
    IN  [agents |-> merged, modified |-> merged # agents]

AgentChoices ==
    {Missing, AgentObject("user"), TaggedAgent("old", "old-cfg"), AgentArray, AgentString}

ModelsInit ==
    /\ SchedIdle
    /\ \E agents \in [AgentNames -> AgentChoices] :
          npx = [pc |-> "models", agents |-> agents, calls |-> 0, writes |-> 0,
                 last |-> [module |-> "", before |-> agents, returned |-> FALSE]]
    /\ cls = Idle /\ sel = Idle /\ wt = Idle /\ rsc = Idle /\ fm = Idle /\ rapf = Idle
    /\ un = Idle /\ dps = Idle /\ ppc = Idle /\ ins = Idle

\* one install or update of a module that defines agents
ModelsMerge ==
    /\ npx.pc = "models"
    /\ npx.calls < MaxAgentOps
    /\ \E m \in {"omo", "do"} :
          LET r == mergeModuleAgentsToModels(m, npx.agents)
          IN  npx' = [npx EXCEPT
                        !.agents = r.agents, !.calls = @ + 1,
                        !.writes = IF r.modified THEN @ + 1 ELSE @,
                        !.last = [module |-> m, before |-> npx.agents,
                                  returned |-> r.modified]]
    /\ UNCHANGED <<schedVars, poolVars, cls, sel, wt, rsc, fm, rapf, un, dps, ppc, ins>>

ModelsNext == ModelsMerge
ModelsSpec == ModelsInit /\ [][ModelsNext]_vars

UserDefined(v) == v.kind = "object" /\ ~v.tagged
Written(a) == npx.agents[a] # npx.last.before[a]

\* C35 as stated: a user-defined agent object is never modified, and only
\* missing entries and entries carrying a __module__ key are written.
C35_AsStated ==
    (npx.pc = "models" /\ npx.calls > 0) =>
        \A a \in AgentNames :
            /\ UserDefined(npx.last.before[a]) => ~Written(a)
            /\ Written(a) => (npx.last.before[a].kind = "missing" \/ npx.last.before[a].tagged)

\* C35, amended: a user-defined agent object is never modified; the entries
\* written are missing ones, ones carrying a __module__ key, and ones whose
\* value is not a plain object.
C35_UserObjectsKept ==
    (npx.pc = "models" /\ npx.calls > 0) =>
        \A a \in AgentNames :
            /\ UserDefined(npx.last.before[a]) => ~Written(a)
            /\ Written(a) => \/ npx.last.before[a].kind = "missing"
                             \/ npx.last.before[a].tagged
                             \/ npx.last.before[a].kind \in {"array", "string"}

C35_Witness ==
    /\ npx.pc = "models"
    /\ npx.calls = 3
    /\ npx.last.module = "omo"
    /\ npx.last.returned
    /\ npx.agents["develop"] = AgentObject("user")
    /\ npx.last.before["review"] = TaggedAgent("old", "old-cfg")
    /\ npx.agents["review"] = TaggedAgent("omo", "omo-review")

\* ---------------------------------------------------------------------
\* the npx installer with an operation that fails and with every command
\* the configuration may give to run_command
\* ---------------------------------------------------------------------
NpxFaultInit ==
    /\ SchedIdle
    /\ \E update \in BOOLEAN, force \in BOOLEAN :
       \E chosen \in SUBSET {NpxItems[k] : k \in 1..Len(NpxItems)} :
       \E dir \in NpxDirChoices :
       \E fault \in FaultChoices :
       \E command \in (IF fault = "none" THEN CommandChoices ELSE {InstallCommand}) :
          npx = NpxStart([command |-> "install", update |-> update, list |-> FALSE,
                          dryRun |-> FALSE, force |-> force, yes |-> TRUE, answer |-> TRUE],
                         chosen, dir, fault, command)
    /\ cls = Idle /\ sel = Idle /\ wt = Idle /\ rsc = Idle /\ fm = Idle /\ rapf = Idle
    /\ un = Idle /\ dps = Idle /\ ppc = Idle /\ ins = Idle

NpxFaultNext == NpxMain \/ NpxInstallPick \/ NpxInstallEnd \/ NpxUpdateModule
NpxFaultSpec == NpxFaultInit /\ [][NpxFaultNext]_vars

Applying(m) ==
    /\ npx.pc \in {"install", "update"}
    /\ npx.i <= Len(npx.picks)
    /\ npx.picks[npx.i] = [kind |-> "module", name |-> m]

\* C36: applying a module executes no command of the module configuration: a
\* run_command whose trimmed command is not exactly "bash install.sh" is
\* refused with an error that aborts the module, and an accepted one runs
\* nothing but the repository's install script, once at most.
C36_OnlyInstallShRuns ==
    [][Applying("bmad") =>
          IF TrimSpace(npx.command) # <<"bash install.sh">>
          THEN /\ npx'.pc = "error"
               /\ npx'.installShRuns = npx.installShRuns
               /\ npx'.status = npx.status
               /\ npx'.files[WrapperFile] = npx.files[WrapperFile]
          ELSE /\ npx'.installShRuns <= npx.installShRuns + 1
               /\ npx'.installShRuns <= 1
               /\ npx'.error \in {"", "install script failed", "merge_dir failed"}]_vars

C36_Witness ==
    /\ npx.pc = "error"
    /\ npx.error = "Refusing run_command"
    /\ npx.command = <<"bash install.sh", " ", "--all">>
    /\ npx.picks[npx.i].name = "bmad"
    /\ npx.i = 3
    /\ npx.files[BmadAgent] = "repo"
    /\ "bmad" \notin npx.status.modules

\* C37: when a copy_file, copy_dir, merge_dir or run_command operation of a
\* module fails during install or update, the installer stops with an error,
\* the module's entry in installed_modules.json is neither created nor
\* changed, and no later item is installed; installed_modules.json is written
\* only for a module whose operations all succeeded.
C37_FailedModuleNotRecorded ==
    [][/\ (npx.pc \in {"install", "update"} /\ npx'.error # "") =>
              /\ npx'.pc = "error"
              /\ npx'.status = npx.status
              /\ npx'.writes = npx.writes
              /\ npx'.i = npx.i
       /\ npx.pc = "error" => npx' = npx
       /\ (npx.pc \in {"install", "update"} /\ npx'.status # npx.status) => npx'.error = ""]_vars

C37_Witness ==
    /\ npx.pc = "error"
    /\ npx.fault = "copy_file"
    /\ npx.picks[npx.i].name = "omo"
    /\ npx.i < Len(npx.picks)
    /\ npx.status.modules = {"do"}
    /\ npx.files[DevSkill] = "absent"

\* where a path leads once every link is followed, and whether it exists
Resolved(path) == Follow(<<>>, path, rapf.links)
ResolvedAllowedDirs ==
    {Resolved(allowedDirs[k]) : k \in {j \in 1..Len(allowedDirs) :
                                         Resolved(allowedDirs[j]) \in Directories}}
ResolvedOutside ==
    \A d \in ResolvedAllowedDirs : ~IsUnder(Resolved(rapf.absPath), d)

\* C38: in restricted mode ReadAgentPromptFile never returns the content of a
\* file whose symlink-resolved location lies outside all of the resolved
\* allowed directories, even when the path as written lies inside one.
C38_ResolvedOutsideRefused ==
    (rapf.pc = "done" /\ ~rapf.allowOutsideClaudeDir /\ rapf.path.form # "blank"
       /\ rapf.absPath # <<>> /\ ResolvedOutside)
        => rapf.err /\ rapf.content = <<>>

C38_Witness ==
    /\ rapf.pc = "done"
    /\ ~rapf.allowOutsideClaudeDir
    /\ ~rapf.homeErr
    /\ \E k \in 1..Len(allowedDirs) : IsUnder(rapf.absPath, allowedDirs[k])
    /\ Resolved(rapf.absPath) = <<"etc", "f">>
    /\ ResolvedOutside
    /\ rapf.err
    /\ ~rapf.didRead

\* ---------------------------------------------------------------------
\* the scheduler under fair scheduling: an enabled step of the scheduler is
\* eventually taken, and a running child eventually exits or is killed
\* ---------------------------------------------------------------------
ChildEnds(i) ==
    \/ \E code \in BackendExitCodes : \E hasMsg \in BOOLEAN : TaskExit(i, code, hasMsg)
    \/ ForceKill(i)

\* the batches the scheduler accepts
LiveInit == Init /\ ValidBatch(ids, deps)

LiveNext ==
    \/ Accept
    \/ \E i \in Idx : Start(i)
    \/ \E i \in Idx : ChildEnds(i)
    \/ \E i \in Idx : TimeoutFire(i)
    \/ Tick
    \/ Cancel
    \/ AssembleReport

\* a task is running only while the batch is: the guard of TaskExit(i, 0, TRUE)
\* then holds, so a running child can always end, and "task i does not stay
\* running for ever" is weak fairness of ChildEnds(i)
ChildCanEnd == \A i \in Idx : state[i] = "running" => phase = "running"

\* the scheduler's own steps are weakly fair (its goroutines keep running);
\* each started child eventually exits or is killed
Fairness ==
    /\ WF_vars(Accept)
    /\ WF_vars(AssembleReport)
    /\ \A i \in Idx : WF_vars(Start(i))
    /\ \A i \in Idx : []<>(state[i] # "running")

LiveSpec == LiveInit /\ [][LiveNext]_vars /\ Fairness

\* C39: for every valid batch in which each started child eventually exits or
\* is killed, every task eventually reaches a terminal state and the
\* BatchReport is eventually produced, for every worker count, with or
\* without fail-fast or external cancellation.
C39_BatchTerminates ==
    (phase = "submitted" /\ ValidBatch(ids, deps))
        ~> (phase = "reported" /\ \A i \in Idx : IsTerminal(state[i]))

C39_Witness ==
    /\ phase = "reported"
    /\ maxWorkers = 1
    /\ \E i \in Idx : deps[i] # {} /\ state[i] = "succeeded"
    /\ \E i \in Idx : state[i] = "timed-out"
    /\ Len(report) = BatchLen

====
